---- MODULE Spec2Model ----
(***************************************************************************)
(* Run lifecycle of the load tester: LoadTester (startTest, the interval   *)
(* callbacks, stopTest), TestManager (createTest, updateTest, loadTests)   *)
(* and the two HTTP handlers of server.js that drive them; and the proxy   *)
(* pool, ProxyManager (addProxy, removeProxy, testProxy, testAllProxies,   *)
(* getRandomProxy, getNextProxy, cleanupDeadProxies, loadProxies).         *)
(*                                                                         *)
(* Node runs one callback at a time, so every action below is one          *)
(* callback run up to its next await on real I/O (a network call, a file   *)
(* write).  Awaits on already-resolved promises only yield to the          *)
(* microtask queue and are folded into the action.                         *)
(*                                                                         *)
(* Time is the millisecond clock of Date.now(), advanced one second at a   *)
(* time.  A timer is due when the clock has reached its deadline; the      *)
(* clock does not advance while a timer is due.                            *)
(***************************************************************************)
EXTENDS Integers, Sequences, FiniteSets, TLC

VARIABLES
    now,          \* Date.now(), in ms
    loaded,       \* TestManager.loadTests (started by the constructor) has finished
    nextId,       \* next id uuidv4() hands out (ids are 1, 2, ...)
    tests,        \* TestManager.tests: id -> stored record, or NoTest
    activeTests,  \* LoadTester.activeTests: id -> index of the testState in runs, 0 if absent
    runs,         \* heap of testState objects, in creation order
    timers,       \* every setInterval timer ever created (testState.intervals)
    ticks,        \* interval callbacks suspended at an await (units of work in flight)
    starts,       \* POST /api/test/start handlers awaiting createTest
    stops,        \* stopTest calls awaiting updateTest
    timeouts,     \* per run: its duration setTimeout
    observed,     \* per run: the Results last passed to onProgress (history)
    lastStop,     \* per id: how the latest stopTest call that found a run ended (history)
    redo,         \* per id: what a stopTest call made after a returned one did (history)
    stopCalls,    \* per id: stopTest calls made so far (history)
    apiStops,     \* number of POST /api/test/stop requests so far (history)
    proxies,      \* ProxyManager.proxies: the array of proxy records
    proxyIndex,   \* ProxyManager.proxyIndex, as a 0-based array index
    poolLoaded,   \* ProxyManager.loadProxies (started by the constructor) has read the file
    nextOid,      \* next proxy object to be allocated (objects are 1, 2, ...)
    lastId,       \* Date.now() of the latest push, as used for a record's id
    probes,       \* testProxy calls awaiting their axios.get
    refreshes,    \* testAllProxies calls awaiting their probes
    refreshCount, \* testAllProxies calls made so far
    picked,       \* what the latest getRandomProxy call to return did (history)
    rr,           \* what getNextProxy returned since the array last changed (history)
    arg,          \* the argument of the latest call of a function checked on its own
    ret,          \* what that call returned
    discovery     \* where the loadFreeProxyLists started by the constructor stands

life == <<now, loaded, nextId, tests, activeTests, runs, timers, timeouts, ticks,
          starts, stops, observed, lastStop, redo, stopCalls, apiStops>>

pool == <<proxies, proxyIndex, poolLoaded, nextOid, lastId, probes, refreshes,
          refreshCount, picked, rr>>

calls == <<arg, ret, discovery>>

vars == <<life, pool, calls>>

-----------------------------------------------------------------------------
(* Bounds *)

MaxRuns == 1         \* runs started in one behaviour
MaxSeconds == 21     \* horizon of the clock, in seconds
MaxInflight == 2     \* units of work one timer may have in flight
MaxApiStops == 1     \* stop requests in one behaviour
MaxFindings == 2     \* findings one run collects
MaxObjects == 2      \* proxy objects created in one behaviour
MaxRefreshes == 1    \* testAllProxies calls in one behaviour
MaxProbes == 2       \* testProxy calls under way at one time
MaxPicks == 4        \* getNextProxy calls while the array stays as it is
MaxWords == 3        \* words of a body handed to detectJavaScriptVulnerabilities

(* Program constants *)

MsPerSecond == 1000       \* duration * 1000, 1000 / requestsPerSecond
BrowseEveryMs == 5000     \* setInterval(..., 5000)
ExploitEveryMs == 10000   \* setInterval(..., 10000)
RateOne == 10             \* successRate = 1, in tenths
RateStep == 1             \* successRate +/- 0.1, in tenths

Ids == 1..MaxRuns
NoTest == [status |-> "absent"]
NoTime == -1
NoSnap == [requests |-> -1]
NoCall == [kind |-> "none"]

Returned(value) == [kind |-> "returned", value |-> value]

-----------------------------------------------------------------------------
(* RunConfig: testConfig.config as startTest destructures it.  hasConfig is
   FALSE when testConfig carries no config object. *)

Cfg(has, url, cu, rps, dur, bi, ex) ==
    [hasConfig |-> has, targetUrl |-> url, concurrentUsers |-> cu,
     requestsPerSecond |-> rps, duration |-> dur, browserInstances |-> bi,
     exploitVulnerabilities |-> ex]

Configs ==
    { Cfg(TRUE, "u", 1, 1, 3, 0, FALSE),     \* one pacing loop, three seconds
      Cfg(TRUE, "u", 0, 1, 10, 1, TRUE),     \* one browser, scan/exploit loop
      Cfg(TRUE, "", 1, 1, 1, 0, FALSE),      \* empty targetUrl
      Cfg(TRUE, "u", 1, 0, 1, 0, FALSE),     \* requestsPerSecond = 0
      Cfg(TRUE, "u", -1, 1, 0, -1, FALSE),   \* negative counts, duration = 0
      Cfg(FALSE, "u", 0, 0, 0, 0, FALSE) }   \* no config object

EmptyResults ==
    [requests |-> 0, successful |-> 0, failed |-> 0, errors |-> <<>>,
     responseTimes |-> <<>>, vulnerabilities |-> <<>>, exploitationAttempts |-> <<>>]

(* setInterval/setTimeout clamp a delay that is below 1, above 2^31-1 or not
   a number (1000 / 0 = Infinity) to 1 ms. *)
TimerDelay(ms) == IF ms < 1 THEN 1 ELSE ms

PacingInterval(rps) == IF rps = 0 THEN 1 ELSE TimerDelay(MsPerSecond \div rps)

(* An interval timer.  closed: the browser of a browse interval has been
   handed to browser.close(). *)
Interval(r, kind, at) ==
    [run |-> r, kind |-> kind, active |-> TRUE, next |-> at, closed |-> FALSE]

IntervalsOf(r) == {t \in 1..Len(timers) : timers[t].run = r}

RECURSIVE AppendN(_, _, _)
AppendN(s, x, n) == IF n <= 0 THEN s ELSE AppendN(Append(s, x), x, n - 1)

-----------------------------------------------------------------------------
(* TestManager *)

createTest(ts, id) ==
    [ts EXCEPT ![id] = [id |-> id, status |-> "created", endTime |-> NoTime, results |-> 0]]

(* this.tests.get(testId) finds nothing *)
updateTestThrows(ts, id) == id \notin DOMAIN ts \/ ts[id] = NoTest

(* { ...updates, ...test } : the stored fields win. *)
spreadReversed(test, updates) ==
    [f \in DOMAIN test \cup DOMAIN updates |->
        IF f \in DOMAIN test THEN test[f] ELSE updates[f]]

(* { ...test, ...updates } : the fields of updates over those of test. *)
spread(test, updates) ==
    [f \in DOMAIN test \cup DOMAIN updates |->
        IF f \in DOMAIN updates THEN updates[f] ELSE test[f]]

(* The updates LoadTester and the stop route pass: results = 0 stands for a
   patch without results. *)
updateTest(ts, id, status, endTime, results) ==
    [ts EXCEPT ![id] =
        spread(@, IF results = 0
                  THEN [status |-> status, endTime |-> endTime]
                  ELSE [status |-> status, endTime |-> endTime, results |-> results])]

(* The constructor starts loadTests without awaiting it; when its file reads
   finish it replaces the map by the file's content (nothing on a first start). *)
LoadTests ==
    /\ ~loaded
    /\ loaded' = TRUE
    /\ tests' = [i \in Ids |-> NoTest]
    /\ UNCHANGED <<pool, calls, now, nextId, activeTests, runs, timers, timeouts, ticks, starts,
                   stops, observed, lastStop, redo, stopCalls, apiStops>>

(* TestManager called directly.  A patch is one of those the program passes:
   the stop route's {status, endTime}, stopTest's {status, endTime, results},
   or a status alone. *)
Patches ==
    LET Status == {"running", "stopped", "completed"} IN
    {[status |-> st] : st \in Status}
        \cup {[status |-> st, endTime |-> now] : st \in Status}
        \cup {[status |-> st, endTime |-> now, results |-> r] : st \in Status, r \in 1..MaxRuns}

(* An id no test was created with. *)
NonExistent == 0

Thrown(message) == [kind |-> "thrown", message |-> message]

(* createTest(testConfig), up to its await of saveTests. *)
CreateTest ==
    /\ nextId <= MaxRuns
    /\ tests' = createTest(tests, nextId)
    /\ nextId' = nextId + 1
    /\ UNCHANGED <<pool, calls, now, loaded, activeTests, runs, timers, timeouts, ticks,
                   starts, stops, observed, lastStop, redo, stopCalls, apiStops>>

(* updateTest(testId, updates): throws before touching the map when the id is
   not stored; otherwise sets the merged record and returns it. *)
UpdateTest(testId, updates) ==
    /\ arg' = [kind |-> "updateTest", testId |-> testId, updates |-> updates]
    /\ IF updateTestThrows(tests, testId)
       THEN /\ ret' = Thrown("not found")
            /\ UNCHANGED tests
       ELSE /\ tests' = [tests EXCEPT ![testId] = spread(@, updates)]
            /\ ret' = Returned(tests'[testId])
    /\ UNCHANGED <<pool, discovery, now, loaded, nextId, activeTests, runs, timers, timeouts,
                   ticks, starts, stops, observed, lastStop, redo, stopCalls, apiStops>>

-----------------------------------------------------------------------------
(* LoadTester: start *)

TestState(id, cfg) ==
    [id |-> id, config |-> cfg, startTime |-> now, isRunning |-> TRUE,
     endTime |-> NoTime, results |-> EmptyResults,
     launching |-> 0,          \* launchBrowserInstance calls not yet settled
     finalizedBy |-> "none",   \* who made the first stopTest call that found it (history)
     handed |-> 0,             \* updateTest calls stopTest made for it (history)
     final |-> NoSnap]         \* Results when a stopTest call for it first returned (history)

(* startHttpLoadTest: concurrentUsers pacing intervals. *)
startHttpLoadTest(tm, r, cfg) ==
    AppendN(tm, Interval(r, "http", now + PacingInterval(cfg.requestsPerSecond)),
            cfg.concurrentUsers)

(* startVulnerabilityExploitation: one interval when the option is set. *)
startVulnerabilityExploitation(tm, r, cfg) ==
    IF cfg.exploitVulnerabilities
    THEN Append(tm, Interval(r, "exploit", now + ExploitEveryMs))
    ELSE tm

(* a duration timer that takes the duration for milliseconds *)
DurationTimerInMs(id, cfg) ==
    [state |-> "armed", id |-> id, at |-> now + TimerDelay(cfg.duration)]

(* The duration setTimeout of startHttpLoadTest; it keeps the run's id. *)
DurationTimer(id, cfg) ==
    [state |-> "armed", id |-> id, at |-> now + TimerDelay(cfg.duration * MsPerSecond)]

NoTimer == [state |-> "none", id |-> 0, at |-> 0]

(* startTest.  Without a config object the destructuring in startHttpLoadTest
   throws after the run was registered: no interval, no duration timer. *)
startTest(id, cfg) ==
    LET r == Len(runs) + 1
        n == IF cfg.browserInstances > 0 THEN cfg.browserInstances ELSE 0 IN
    /\ activeTests' = [activeTests EXCEPT ![id] = r]
    /\ lastStop' = [lastStop EXCEPT ![id] = "none"]
    /\ IF cfg.hasConfig
       THEN /\ runs' = Append(runs, [TestState(id, cfg) EXCEPT !.launching = n])
            /\ timers' = startVulnerabilityExploitation(
                             startHttpLoadTest(timers, r, cfg), r, cfg)
            /\ timeouts' = Append(timeouts, DurationTimer(id, cfg))
       ELSE /\ runs' = Append(runs, TestState(id, cfg))
            /\ timers' = timers
            /\ timeouts' = Append(timeouts, NoTimer)

(* POST /api/test/start up to its await of createTest. *)
ApiStartCreate(cfg) ==
    /\ nextId <= MaxRuns
    /\ now + cfg.duration * MsPerSecond <= MaxSeconds * MsPerSecond
    /\ nextId' = nextId + 1
    /\ tests' = createTest(tests, nextId)
    /\ starts' = Append(starts, [id |-> nextId, config |-> cfg])
    /\ UNCHANGED <<pool, calls, now, loaded, activeTests, runs, timers, timeouts, ticks, stops,
                   observed, lastStop, redo, stopCalls, apiStops>>

(* POST /api/test/start after createTest: loadTester.startTest(testConfig). *)
ApiStartRun ==
    /\ starts # <<>>
    /\ starts' = Tail(starts)
    /\ startTest(Head(starts).id, Head(starts).config)
    /\ UNCHANGED <<pool, calls, now, loaded, nextId, tests, ticks, stops, observed, redo, stopCalls, apiStops>>

(* loadTester.startTest(testConfig) called again with the id of an earlier
   run that is no longer registered; the id's TestRecord is the earlier one. *)
StartAgain(id, cfg) ==
    /\ \E r \in 1..Len(runs) : runs[r].id = id
    /\ activeTests[id] = 0
    /\ Len(runs) <= MaxRuns
    /\ now + cfg.duration * MsPerSecond <= MaxSeconds * MsPerSecond
    /\ startTest(id, cfg)
    /\ UNCHANGED <<pool, calls, now, loaded, nextId, tests, ticks, starts, stops, observed,
                   redo, stopCalls, apiStops>>

-----------------------------------------------------------------------------
(* LoadTester: stop *)

(* stopTest without its activeTests.delete *)
unregisterSkipped(at, id) == at

(* activeTests.delete(testId) *)
unregister(at, id) == [at EXCEPT ![id] = 0]

(* testState.intervals.forEach(interval => clearInterval(interval)) *)
clearIntervals(tm, r) ==
    [t \in 1..Len(tm) |-> IF tm[t].run = r THEN [tm[t] EXCEPT !.active = FALSE] ELSE tm[t]]

(* stopTest up to its await of updateTest; origin is "timer" or "api".
   api: the handler of POST /api/test/stop, which after stopTest returns
   calls updateTest(testId, {status: 'stopped', endTime: new Date()}). *)
stopTest(id, origin) ==
    LET r == activeTests[id]
        after == lastStop[id] = "returned" IN
    /\ stopCalls' = [stopCalls EXCEPT ![id] = @ + 1]
    /\ IF r = 0
       THEN /\ redo' = IF after THEN [redo EXCEPT ![id] = "noop"] ELSE redo
            /\ tests' = IF origin = "api" /\ ~updateTestThrows(tests, id)
                        THEN updateTest(tests, id, "stopped", now, 0)
                        ELSE tests
            /\ UNCHANGED <<runs, timers, stops, lastStop>>
       ELSE /\ timers' = clearIntervals(timers, r)
            /\ IF updateTestThrows(tests, id)
               THEN /\ runs' = [runs EXCEPT ![r].isRunning = FALSE, ![r].endTime = now,
                                    ![r].finalizedBy = IF @ = "none" THEN origin ELSE @]
                    /\ redo' = IF after THEN [redo EXCEPT ![id] = "raised"] ELSE redo
                    /\ lastStop' = [lastStop EXCEPT ![id] = "raised"]
                    /\ UNCHANGED <<tests, stops>>
               ELSE /\ runs' = [runs EXCEPT ![r].isRunning = FALSE, ![r].endTime = now,
                                    ![r].finalizedBy = IF @ = "none" THEN origin ELSE @,
                                    ![r].handed = @ + 1]
                    /\ tests' = updateTest(tests, id, "completed", now, r)
                    /\ stops' = Append(stops, [id |-> id, run |-> r, origin |-> origin])
                    /\ redo' = IF after THEN [redo EXCEPT ![id] = "acted"] ELSE redo
                    /\ UNCHANGED lastStop

(* The duration timer fires: this.stopTest(testState.id). *)
TimeoutFire(r) ==
    /\ timeouts[r].state = "armed"
    /\ timeouts[r].at <= now
    /\ timeouts' = [timeouts EXCEPT ![r].state = "fired"]
    /\ stopTest(timeouts[r].id, "timer")
    /\ UNCHANGED <<pool, calls, now, loaded, nextId, activeTests, ticks, starts, observed, apiStops>>

(* POST /api/test/stop for an id a start request has answered with. *)
ApiStop(id) ==
    /\ apiStops < MaxApiStops
    /\ \E r \in 1..Len(runs) : runs[r].id = id
    /\ apiStops' = apiStops + 1
    /\ stopTest(id, "api")
    /\ UNCHANGED <<pool, calls, now, loaded, nextId, activeTests, timeouts, ticks, starts, observed>>

(* stopTest after updateTest has saved: activeTests.delete(testId); then, for
   the api handler, its own updateTest. *)
StopResume(i) ==
    LET c == stops[i] IN
    /\ activeTests' = unregister(activeTests, c.id)
    /\ stops' = [j \in 1..(Len(stops) - 1) |-> IF j < i THEN stops[j] ELSE stops[j + 1]]
    /\ lastStop' = [lastStop EXCEPT ![c.id] = "returned"]
    /\ runs' = [runs EXCEPT ![c.run].final = IF @ = NoSnap THEN runs[c.run].results ELSE @]
    /\ tests' = IF c.origin = "api" /\ ~updateTestThrows(tests, c.id)
                THEN updateTest(tests, c.id, "stopped", now, 0)
                ELSE tests
    /\ UNCHANGED <<pool, calls, now, loaded, nextId, timers, timeouts, ticks, starts, observed,
                   redo, stopCalls, apiStops>>

-----------------------------------------------------------------------------
(* Units of work *)

Inflight(t) == Cardinality({k \in ticks : k.timer = t})

Unit(t, stage, cursor) == [timer |-> t, start |-> now, stage |-> stage, cursor |-> cursor]

(* An interval timer is due. *)
Due(t, kind) ==
    /\ timers[t].kind = kind
    /\ timers[t].active
    /\ timers[t].next <= now

(* The callback's first lines: a stopped run clears the interval (the browse
   callback also closes its browser) and returns;
   otherwise the unit of work starts and suspends at its first network call.
   setInterval re-arms the timer without waiting for the callback's promise. *)
Fire(t, stage, every) ==
    IF ~runs[timers[t].run].isRunning
    THEN /\ timers' = [timers EXCEPT ![t].active = FALSE,
                                     ![t].closed = (timers[t].kind = "browse")]
         /\ UNCHANGED ticks
    ELSE /\ Inflight(t) < MaxInflight
         /\ timers' = [timers EXCEPT ![t].next = now + every]
         /\ ticks' = ticks \cup {Unit(t, stage, 0)}

(* a callback that is never called *)
onProgressDropped(r, res) == UNCHANGED observed

(* callback(testState.results) *)
onProgress(r, res) == observed' = [observed EXCEPT ![r] = res]

(* recordResponse counting a failed response as a failure only *)
recordResponseUncounted(res, responseTime, success) ==
    IF success
    THEN [res EXCEPT !.requests = @ + 1,
                     !.responseTimes = Append(@, responseTime),
                     !.successful = @ + 1]
    ELSE [res EXCEPT !.failed = @ + 1,
                     !.errors = Append(@, "request")]

(* recordResponse counting a failed response without an entry in errors *)
recordResponseSilent(res, responseTime, success) ==
    IF success
    THEN [res EXCEPT !.requests = @ + 1,
                     !.responseTimes = Append(@, responseTime),
                     !.successful = @ + 1]
    ELSE [res EXCEPT !.requests = @ + 1,
                     !.responseTimes = Append(@, responseTime),
                     !.failed = @ + 1]

(* Lines 78-90: the response of makeHttpRequest is recorded. *)
recordResponse(res, responseTime, success) ==
    IF success
    THEN [res EXCEPT !.requests = @ + 1,
                     !.responseTimes = Append(@, responseTime),
                     !.successful = @ + 1]
    ELSE [res EXCEPT !.requests = @ + 1,
                     !.responseTimes = Append(@, responseTime),
                     !.failed = @ + 1,
                     !.errors = Append(@, "request")]

(* recordNavigation starting the response times afresh after a failure *)
recordNavigationReset(res, responseTime, success) ==
    IF success
    THEN [res EXCEPT !.requests = @ + 1,
                     !.responseTimes = Append(@, responseTime),
                     !.successful = @ + 1]
    ELSE [res EXCEPT !.failed = @ + 1,
                     !.errors = Append(@, "browser"),
                     !.responseTimes = <<>>]

(* Lines 167-169 and 173-178: a page.goto that resolved, or that threw. *)
recordNavigation(res, responseTime, success) ==
    IF success
    THEN [res EXCEPT !.requests = @ + 1,
                     !.responseTimes = Append(@, responseTime),
                     !.successful = @ + 1]
    ELSE [res EXCEPT !.failed = @ + 1,
                     !.errors = Append(@, "browser")]

HttpFire(t) ==
    /\ Due(t, "http")
    /\ Fire(t, "request",
            PacingInterval(runs[timers[t].run].config.requestsPerSecond))
    /\ UNCHANGED <<pool, calls, now, loaded, nextId, tests, activeTests, runs, timeouts, starts,
                   stops, observed, lastStop, redo, stopCalls, apiStops>>

(* makeHttpRequest settles.  It returns success: false instead of throwing,
   getRandomProxy catches every probe and file error, and onProgress is the
   io.emit of server.js: nothing awaited or called in the try block raises, so
   the callback always runs lines 78-92. *)
HttpDone(k, success) ==
    LET r == timers[k.timer].run
        res == recordResponse(runs[r].results, now - k.start, success) IN
    /\ timers[k.timer].kind = "http"
    /\ ticks' = ticks \ {k}
    /\ runs' = [runs EXCEPT ![r].results = res]
    /\ onProgress(r, res)
    /\ UNCHANGED <<pool, calls, now, loaded, nextId, tests, activeTests, timers, timeouts, starts,
                   stops, lastStop, redo, stopCalls, apiStops>>

(* launchBrowserInstance settles: the browser is up and its browse interval is
   created and pushed to testState.intervals, or the launch threw (logged). *)
LaunchDone(r, success) ==
    /\ runs[r].launching > 0
    /\ runs' = [runs EXCEPT ![r].launching = @ - 1]
    /\ timers' = IF success
                 THEN Append(timers, Interval(r, "browse", now + BrowseEveryMs))
                 ELSE timers
    /\ UNCHANGED <<pool, calls, now, loaded, nextId, tests, activeTests, timeouts, ticks, starts,
                   stops, observed, lastStop, redo, stopCalls, apiStops>>

BrowseFire(t) ==
    /\ Due(t, "browse")
    /\ Fire(t, "goto", BrowseEveryMs)
    /\ UNCHANGED <<pool, calls, now, loaded, nextId, tests, activeTests, runs, timeouts, starts,
                   stops, observed, lastStop, redo, stopCalls, apiStops>>

BrowseDone(k, success) ==
    LET r == timers[k.timer].run
        res == recordNavigation(runs[r].results, now - k.start, success) IN
    /\ timers[k.timer].kind = "browse"
    /\ ticks' = ticks \ {k}
    /\ runs' = [runs EXCEPT ![r].results = res]
    /\ onProgress(r, res)
    /\ UNCHANGED <<pool, calls, now, loaded, nextId, tests, activeTests, timers, timeouts, starts,
                   stops, lastStop, redo, stopCalls, apiStops>>

-----------------------------------------------------------------------------
(* Findings *)

LibraryFinding ==
    [type |-> "Vulnerable JS Library", severity |-> "HIGH",
     cve |-> {"CVE-2025-27152", "CVE-2024-39338"}]

SqlFinding == [type |-> "SQL Injection", severity |-> "CRITICAL", cve |-> {}]

HeadersFinding == [type |-> "Missing Security Headers", severity |-> "MEDIUM", cve |-> {}]

(* What one performVulnerabilityScan can return. *)
ScanOutcomes == {<<>>, <<LibraryFinding>>, <<SqlFinding>>}

(* testSQLInjection.  The four payloads, by their SQL keywords: ' OR '1'='1,
   '; DROP TABLE users; --, ' UNION SELECT ... and 1' AND (SELECT COUNT ...). *)
sqlPayloads == <<"OR 1=1", "DROP TABLE", "UNION SELECT", "AND SELECT COUNT">>

(* The six patterns, each a run of words; all carry the i flag. *)
sqlErrorPatterns ==
    << <<"sql", "syntax">>, <<"mysql", "error">>, <<"oracle", "error">>,
       <<"postgresql", "error">>, <<"sql", "server", "error">>, <<"syntax", "error">> >>

(* A response body is a sequence of words separated by single spaces. *)
toLowerCase(word) ==
    CASE word = "SQL" -> "sql"
      [] word = "Error" -> "error"
      [] OTHER -> word

(* the run of words occurs in the content *)
includes(content, words) ==
    \E i \in 0..(Len(content) - Len(words)) :
        \A j \in 1..Len(words) : content[i + j] = words[j]

(* patterns without the i flag *)
detectCaseSensitive(content) ==
    \E n \in 1..Len(sqlErrorPatterns) : includes(content, sqlErrorPatterns[n])

(* detectSQLInjectionResponse(content) *)
detectSQLInjectionResponse(content) ==
    \E n \in 1..Len(sqlErrorPatterns) :
        includes([i \in 1..Len(content) |-> toLowerCase(content[i])], sqlErrorPatterns[n])

SqlBodies ==
    { <<>>, <<"SQL", "syntax">>, <<"syntax", "error">>, <<"mysql", "Error">>,
      <<"sql", "ok", "syntax">>, <<"error", "syntax">> }

(* What makeHttpRequest resolves to: it never throws. *)
SqlResponses ==
    {[success |-> FALSE]} \cup {[success |-> TRUE, data |-> data] : data \in SqlBodies}

SqlInjectionFinding(payload) ==
    [type |-> "SQL Injection", severity |-> "CRITICAL", payload |-> payload]

(* testSQLInjection is called: the request of the first payload is sent.  arg
   keeps the requests sent and the responses received (history), ret the
   local vulnerabilities until they are returned. *)
TestSQLInjection ==
    /\ arg = NoCall
    /\ arg' = [kind |-> "testSQLInjection", requests |-> <<sqlPayloads[1]>>,
               responses |-> <<>>]
    /\ ret' = [kind |-> "pending", vulnerabilities |-> <<>>]
    /\ UNCHANGED <<life, pool, discovery>>

(* The makeHttpRequest of the current payload resolves: a finding is pushed
   or not, then the next payload is sent or the findings are returned. *)
SqlResponse(response) ==
    LET k == Len(arg.requests)
        vulnerabilities ==
            IF response.success /\ detectSQLInjectionResponse(response.data)
            THEN Append(ret.vulnerabilities, SqlInjectionFinding(sqlPayloads[k]))
            ELSE ret.vulnerabilities IN
    /\ arg.kind = "testSQLInjection"
    /\ ret.kind = "pending"
    /\ IF k < Len(sqlPayloads)
       THEN /\ arg' = [arg EXCEPT !.requests = Append(@, sqlPayloads[k + 1]),
                                  !.responses = Append(@, response)]
            /\ ret' = [ret EXCEPT !.vulnerabilities = vulnerabilities]
       ELSE /\ arg' = [arg EXCEPT !.responses = Append(@, response)]
            /\ ret' = Returned(vulnerabilities)
    /\ UNCHANGED <<life, pool, discovery>>

(* detectJavaScriptVulnerabilities.  A body is a sequence of words; "\n" is a
   line break.  The catalog is the three axios patterns followed by the three
   other libraries, each /name.*version/. *)
AxiosCves == {"CVE-2025-27152", "CVE-2024-39338"}

Catalog ==
    << [name |-> "axios", version |-> "v1.6.5", cve |-> AxiosCves],
       [name |-> "axios", version |-> "v1.6.4", cve |-> AxiosCves],
       [name |-> "axios", version |-> "v1.6.3", cve |-> AxiosCves],
       [name |-> "jquery", version |-> "1.12.4", cve |-> {"CVE-2021-21349"}],
       [name |-> "lodash", version |-> "4.17.20", cve |-> {"CVE-2021-23337"}],
       [name |-> "moment", version |-> "2.29.3", cve |-> {"CVE-2022-31129"}] >>

(* A pattern whose dot also matches a line break. *)
testAcrossLines(pattern, htmlContent) ==
    \E i \in 1..Len(htmlContent) :
        /\ htmlContent[i] = pattern.name
        /\ \E j \in (i + 1)..Len(htmlContent) : htmlContent[j] = pattern.version

(* pattern.test(htmlContent) for /name.*version/ : the name, then on the same
   line the version.  The dot does not match a line break. *)
test(pattern, htmlContent) ==
    \E i \in 1..Len(htmlContent) :
        /\ htmlContent[i] = pattern.name
        /\ \E j \in (i + 1)..Len(htmlContent) :
              /\ htmlContent[j] = pattern.version
              /\ \A m \in (i + 1)..(j - 1) : htmlContent[m] # "\n"

CatalogFinding(entry) ==
    [type |-> "Vulnerable JS Library", severity |-> "HIGH",
     cve |-> entry.cve, evidence |-> entry.version]

(* The two forEach loops: one finding pushed per pattern that tests true. *)
RECURSIVE detectFrom(_, _)
detectFrom(n, htmlContent) ==
    IF n > Len(Catalog) THEN <<>>
    ELSE (IF test(Catalog[n], htmlContent) THEN <<CatalogFinding(Catalog[n])>> ELSE <<>>)
             \o detectFrom(n + 1, htmlContent)

detectJavaScriptVulnerabilities(htmlContent) == detectFrom(1, htmlContent)

(* The bodies that are scanned. *)
Words ==
    {Catalog[n].name : n \in 1..Len(Catalog)}
        \cup {Catalog[n].version : n \in 1..Len(Catalog)}
        \cup {"v2.0.0", "\n"}

Bodies == UNION {[1..n -> Words] : n \in 0..MaxWords}

DetectCall(htmlContent) ==
    [kind |-> "detectJavaScriptVulnerabilities", htmlContent |-> htmlContent]

(* A call of detectJavaScriptVulnerabilities on a body. *)
Detect ==
    /\ arg.kind = "detectJavaScriptVulnerabilities"
    /\ ret' = Returned(detectJavaScriptVulnerabilities(arg.htmlContent))
    /\ ret' # ret
    /\ UNCHANGED <<life, pool, arg, discovery>>

(* analyzeResponseForVulnerabilities.  response.headers() gives, for each
   header name, nothing (the header is not on the response), the empty string
   (the header is there with no value) or a non-empty string. *)
SecurityHeaders ==
    << "X-Frame-Options", "X-Content-Type-Options", "X-XSS-Protection",
       "Strict-Transport-Security", "Content-Security-Policy" >>

HeaderValues == {"undefined", "", "value"}

ResponseHeaders == [1..Len(SecurityHeaders) -> HeaderValues]

(* !value *)
Falsy(value) == value = "undefined" \/ value = ""

(* Object.entries(securityHeaders).filter(([key, value]) => !value).map(([key]) => key) *)
RECURSIVE missingFrom(_, _)
missingFrom(n, headers) ==
    IF n > Len(SecurityHeaders) THEN <<>>
    ELSE (IF Falsy(headers[n]) THEN <<SecurityHeaders[n]>> ELSE <<>>)
             \o missingFrom(n + 1, headers)

missingHeaders(headers) == missingFrom(1, headers)

(* The vulnerabilities array after analyzeResponseForVulnerabilities. *)
analyzeResponseForVulnerabilities(vulnerabilities, headers) ==
    IF Len(missingHeaders(headers)) > 0
    THEN Append(vulnerabilities,
                [type |-> "Missing Security Headers", severity |-> "MEDIUM",
                 description |-> missingHeaders(headers)])
    ELSE vulnerabilities

AnalyzeCall(vulnerabilities, headers) ==
    [kind |-> "analyzeResponseForVulnerabilities",
     vulnerabilities |-> vulnerabilities, headers |-> headers]

(* A call of analyzeResponseForVulnerabilities on a response. *)
Analyze ==
    /\ arg.kind = "analyzeResponseForVulnerabilities"
    /\ ret' = Returned(analyzeResponseForVulnerabilities(arg.vulnerabilities, arg.headers))
    /\ ret' # ret
    /\ UNCHANGED <<life, pool, arg, discovery>>

(* Every finding is taken for exploitable. *)
ExploitableAlways(v) == v.type = v.type

(* exploitKnownVulnerabilities, line 375 *)
Exploitable(v) == v.type = "Vulnerable JS Library" /\ "CVE-2025-27152" \in v.cve

(* The for-of loop of exploitKnownVulnerabilities over the live array: the
   next index from `from` on whose finding is exploited, 0 when the loop ends. *)
NextExploit(vulns, from) ==
    LET S == {j \in from..Len(vulns) : Exploitable(vulns[j])} IN
    IF S = {} THEN 0 ELSE CHOOSE j \in S : \A i \in S : j <= i

(* page.on('response'): analyzeResponseForVulnerabilities for a response seen
   while a navigation is in flight. *)
HeaderAudit(k, missing) ==
    LET r == timers[k.timer].run
        res == IF missing
               THEN [runs[r].results EXCEPT !.vulnerabilities = Append(@, HeadersFinding)]
               ELSE runs[r].results IN
    /\ timers[k.timer].kind = "browse"
    /\ Len(runs[r].results.vulnerabilities) < MaxFindings
    /\ runs' = [runs EXCEPT ![r].results = res]
    /\ onProgress(r, res)
    /\ UNCHANGED <<pool, calls, now, loaded, nextId, tests, activeTests, timers, timeouts, ticks,
                   starts, stops, lastStop, redo, stopCalls, apiStops>>

ExploitFire(t) ==
    /\ Due(t, "exploit")
    /\ Fire(t, "scan", ExploitEveryMs)
    /\ UNCHANGED <<pool, calls, now, loaded, nextId, tests, activeTests, runs, timeouts, starts,
                   stops, observed, lastStop, redo, stopCalls, apiStops>>

(* scanForVulnerabilities settles: findings pushed, onProgress; then
   exploitKnownVulnerabilities runs to its first exploit request. *)
ScanDone(k, found) ==
    LET r == timers[k.timer].run
        res == [runs[r].results EXCEPT !.vulnerabilities = @ \o found]
        j == NextExploit(res.vulnerabilities, 1) IN
    /\ timers[k.timer].kind = "exploit"
    /\ k.stage = "scan"
    /\ Len(res.vulnerabilities) <= MaxFindings
    /\ runs' = [runs EXCEPT ![r].results = res]
    /\ onProgress(r, res)
    /\ ticks' = IF j = 0 THEN ticks \ {k}
                ELSE (ticks \ {k}) \cup {[k EXCEPT !.stage = "exploit", !.cursor = j]}
    /\ UNCHANGED <<pool, calls, now, loaded, nextId, tests, activeTests, timers, timeouts, starts,
                   stops, lastStop, redo, stopCalls, apiStops>>

(* exploitAxiosVulnerability settles: the attempt is pushed, onProgress; the
   loop goes on to the next exploitable finding. *)
ExploitDone(k, success) ==
    LET r == timers[k.timer].run
        res == [runs[r].results EXCEPT
                   !.exploitationAttempts = Append(@, [vulnerability |-> "CVE-2025-27152",
                                                       success |-> success])]
        j == NextExploit(res.vulnerabilities, k.cursor + 1) IN
    /\ timers[k.timer].kind = "exploit"
    /\ k.stage = "exploit"
    /\ runs' = [runs EXCEPT ![r].results = res]
    /\ onProgress(r, res)
    /\ ticks' = IF j = 0 THEN ticks \ {k}
                ELSE (ticks \ {k}) \cup {[k EXCEPT !.cursor = j]}
    /\ UNCHANGED <<pool, calls, now, loaded, nextId, tests, activeTests, timers, timeouts, starts,
                   stops, lastStop, redo, stopCalls, apiStops>>

-----------------------------------------------------------------------------
(* Clock *)

Deadlines ==
    {timers[t].next : t \in {u \in 1..Len(timers) : timers[u].active}}
        \cup {timeouts[r].at : r \in {q \in 1..Len(timeouts) : timeouts[q].state = "armed"}}

TimerDue == \E d \in Deadlines : d <= now

Earliest == CHOOSE d \in Deadlines : \A e \in Deadlines : d <= e

(* Time passes while no timer is due, up to the next second in which one is.
   The clock is read through the timers only: with nothing scheduled it stands. *)
ClockTick ==
    /\ Deadlines # {}
    /\ ~TimerDue
    /\ now' = ((Earliest + MsPerSecond - 1) \div MsPerSecond) * MsPerSecond
    /\ now' <= MaxSeconds * MsPerSecond
    /\ UNCHANGED <<pool, calls, loaded, nextId, tests, activeTests, runs, timers, timeouts,
                   ticks, starts, stops, observed, lastStop, redo, stopCalls, apiStops>>

-----------------------------------------------------------------------------
(* ProxyManager.  The units of work above call getRandomProxy; the worker
   loops are checked with the pool as it is after a first start (empty), where
   that call returns null and changes nothing.  The pool's own operations are
   checked below with the lifecycle at rest.

   successRate is kept in tenths: the code moves it in steps of 0.1 and sets
   it to 0 or 1.  A record carries the identity of its JavaScript object
   (oid): addProxy replaces an existing record by a new object, and a probe
   under way keeps writing to the object it was started with. *)

(* The endpoints that are added: two share a host, two share a port. *)
Keys ==
    { [host |-> "a", port |-> 1], [host |-> "a", port |-> 2], [host |-> "b", port |-> 1] }

(* What addProxy is given: a parsed line or URI (never tested, rate 0), or a
   discovered proxy that has just passed testProxy (tested, rate 1). *)
ParsedProxy(key) ==
    [host |-> key.host, port |-> key.port, protocol |-> "http",
     username |-> "", password |-> "",
     successRate |-> 0, lastTested |-> "null"]

DiscoveredProxy(key) ==
    [host |-> key.host, port |-> key.port, protocol |-> "http",
     username |-> "", password |-> "",
     successRate |-> RateOne, lastTested |-> "date"]

(* A record handed to addProxy by a caller that leaves the optional lastTested
   out: the property is missing, which reads as undefined. *)
GivenProxy(key) ==
    [host |-> key.host, port |-> key.port, protocol |-> "http",
     username |-> "", password |-> "",
     successRate |-> 0, lastTested |-> "undefined"]

KeyOf(p) == [host |-> p.host, port |-> p.port]

KeySeq(ps) == [i \in 1..Len(ps) |-> KeyOf(ps[i])]

Least(S) == CHOOSE i \in S : \A j \in S : i <= j

(* Array.prototype.findIndex, given the indices that match: the first of
   them, 0 when there is none *)
findIndex(S) == IF S = {} THEN 0 ELSE Least(S)

(* splice(index, 1) *)
splice(ps, index) ==
    [i \in 1..(Len(ps) - 1) |-> IF i < index THEN ps[i] ELSE ps[i + 1]]

(* a match that also asks for the same health *)
SameEndpointAndHealth(p, proxy) ==
    p.host = proxy.host /\ p.port = proxy.port /\ p.successRate = proxy.successRate

(* p.host === proxy.host && p.port === proxy.port *)
SameEndpoint(p, proxy) == p.host = proxy.host /\ p.port = proxy.port

(* addProxy: an existing record is replaced by the merge of itself and the
   given proxy (a new object); otherwise a record is pushed. *)
addProxy(ps, proxy, id, oid) ==
    LET existingIndex == findIndex({i \in 1..Len(ps) : SameEndpoint(ps[i], proxy)}) IN
    IF existingIndex > 0
    THEN [ps EXCEPT ![existingIndex] =
             [@ EXCEPT !.protocol = proxy.protocol,
                       !.username = proxy.username,
                       !.password = proxy.password,
                       !.successRate = proxy.successRate,
                       !.lastTested = IF proxy.lastTested = "undefined"
                                      THEN @ ELSE proxy.lastTested,
                       !.oid = oid]]
    ELSE Append(ps, [host |-> proxy.host, port |-> proxy.port,
                     protocol |-> proxy.protocol,
                     username |-> proxy.username, password |-> proxy.password,
                     successRate |-> proxy.successRate,
                     lastTested |-> proxy.lastTested,
                     id |-> id, oid |-> oid])

(* removeProxy *)
removeProxy(ps, proxyId) ==
    LET index == findIndex({i \in 1..Len(ps) : ps[i].id = proxyId}) IN
    IF index > 0 THEN splice(ps, index) ELSE ps

(* cleanupDeadProxies *)
cleanupDeadProxies(ps) ==
    LET Keep(p) == p.successRate > 0 \/ p.lastTested = "null" IN
    SelectSeq(ps, Keep)

(* a probe that writes nothing to the record *)
testProxyUnrecorded(p, outcome) == p

(* testProxy once its axios.get has settled; outcome is "ok" (status 200),
   "other" (another 2xx status) or "error" (the request threw). *)
testProxy(p, outcome) ==
    IF outcome = "ok" THEN [p EXCEPT !.lastTested = "date", !.successRate = RateOne]
    ELSE IF outcome = "error" THEN [p EXCEPT !.lastTested = "date", !.successRate = 0]
    ELSE p

Max(a, b) == IF a >= b THEN a ELSE b

Min(a, b) == IF a <= b THEN a ELSE b

(* a nudge without Math.min and Math.max *)
nudgeUnclamped(successRate, isWorking) ==
    IF isWorking THEN successRate + RateStep ELSE successRate - RateStep

(* testAllProxies, lines 210-214 *)
nudge(successRate, isWorking) ==
    IF isWorking
    THEN Min(successRate + RateStep, RateOne)
    ELSE Max(successRate - RateStep, 0)

(* getNextProxy's history is kept while the array holds the same endpoints in
   the same order. *)
rrAfter(ps) == IF KeySeq(ps) = KeySeq(proxies) THEN rr ELSE [rr EXCEPT !.log = <<>>]

NeverPicked ==
    [atCall |-> "never", refreshed |-> FALSE, none |-> FALSE, member |-> FALSE,
     healthy |-> FALSE, emptyAtReturn |-> FALSE]

NeverNext == [log |-> <<>>, none |-> FALSE, size |-> 0, member |-> FALSE]

(* const proxySources, by the repository each list comes from *)
proxySources == <<"proxyscrape", "TheSpeedX", "clarketm">>

(* loadFreeProxyLists: not called yet; awaiting the axios.get of source n;
   awaiting the testProxy of the first of the candidates parsed from source n
   (lines: the lines they were parsed from, data: the list as fetched); past
   the last source. *)
NotStarted == [at |-> "idle"]

Fetching(n) == [at |-> "get", source |-> n]

Testing(n, candidates, lines, data) ==
    [at |-> "test", source |-> n, candidates |-> candidates, lines |-> lines, data |-> data]

Finished == [at |-> "done"]

(* The constructor starts loadProxies without awaiting it.  On a first start
   the file is missing and the array is reset to []; loadFreeProxyLists is
   then called and asks for its first source. *)
LoadProxies ==
    /\ ~poolLoaded
    /\ poolLoaded' = TRUE
    /\ proxies' = <<>>
    /\ rr' = rrAfter(proxies')
    /\ discovery' = Fetching(1)
    /\ UNCHANGED <<life, arg, ret, proxyIndex, nextOid, lastId, probes, refreshes,
                   refreshCount, picked>>

(* addProxy(proxy), up to its await of saveProxies.  Two pushes within the
   same millisecond get the same id. *)
AddProxy(proxy) ==
    /\ nextOid <= MaxObjects
    /\ \E id \in {lastId, lastId + 1} :
          /\ id >= 1
          /\ proxies' = addProxy(proxies, proxy, id, nextOid)
          /\ lastId' = IF Len(proxies') > Len(proxies) THEN id ELSE lastId
    /\ nextOid' = nextOid + 1
    /\ rr' = rrAfter(proxies')
    /\ UNCHANGED <<life, calls, proxyIndex, poolLoaded, probes, refreshes, refreshCount, picked>>

(* addProxyFromString.  A proxy string is a sequence of characters; a scheme
   word counts as one character. *)
SchemeWords == {"http", "https", "socks5"}

DigitChars == <<"0", "1", "2", "3", "4", "5", "6", "7", "8", "9">>

Digit(c) == \E d \in 1..Len(DigitChars) : DigitChars[d] = c

(* The index of the first c in b after position from, 0 when there is none. *)
indexOf(b, c, from) ==
    findIndex({i \in (from + 1)..Len(b) : b[i] = c})

RECURSIVE parseInt(_)
parseInt(ds) ==
    IF ds = <<>> THEN 0
    ELSE parseInt(SubSeq(ds, 1, Len(ds) - 1)) * Len(DigitChars)
         + (CHOOSE d \in 0..(Len(DigitChars) - 1) : DigitChars[d + 1] = ds[Len(ds)])

(* The text of a captured group. *)
RECURSIVE Join(_)
Join(cs) == IF cs = <<>> THEN "" ELSE Head(cs) \o Join(Tail(cs))

NoMatch == [ok |-> FALSE]

(* ([^:]+):(\d+) without the end anchor: digits need not reach the end. *)
hostPortLoose(b) ==
    LET k == indexOf(b, ":", 0)
        e == IF \E i \in (k + 1)..Len(b) : ~Digit(b[i])
             THEN Least({i \in (k + 1)..Len(b) : ~Digit(b[i])}) - 1
             ELSE Len(b) IN
    IF k > 1 /\ e > k
    THEN [ok |-> TRUE, host |-> SubSeq(b, 1, k - 1), port |-> SubSeq(b, k + 1, e)]
    ELSE NoMatch

(* ([^:]+):(\d+)$ : the host runs to the first colon, digits fill the rest. *)
hostPort(b) ==
    LET k == indexOf(b, ":", 0) IN
    IF k > 1 /\ k < Len(b) /\ \A i \in (k + 1)..Len(b) : Digit(b[i])
    THEN [ok |-> TRUE, host |-> SubSeq(b, 1, k - 1), port |-> SubSeq(b, k + 1, Len(b))]
    ELSE NoMatch

(* proxyString.match(/^(https?|socks5):\/\/(?:([^:]+):([^@]+)@)?([^:]+):(\d+)$/):
   the optional group is tried first, the user running to the first colon and
   the password to the first @ after it; when that fails the group is left
   out and its captures stay undefined (an empty sequence here). *)
match(proxyString) ==
    IF /\ Len(proxyString) >= Len(<<"scheme", ":", "/", "/">>)
       /\ proxyString[1] \in SchemeWords
       /\ SubSeq(proxyString, 2, Len(<<"scheme", ":", "/", "/">>)) = <<":", "/", "/">>
    THEN LET b == SubSeq(proxyString, Len(<<"scheme", ":", "/", "/">>) + 1, Len(proxyString))
             i == indexOf(b, ":", 0)
             j == IF i > 0 THEN indexOf(b, "@", i) ELSE 0
             withGroup == IF i > 1 /\ j > i + 1
                          THEN hostPort(SubSeq(b, j + 1, Len(b))) ELSE NoMatch
             without == hostPort(b) IN
         IF withGroup.ok
         THEN [ok |-> TRUE, protocol |-> proxyString[1],
               username |-> <<Join(SubSeq(b, 1, i - 1))>>,
               password |-> <<Join(SubSeq(b, i + 1, j - 1))>>,
               host |-> Join(withGroup.host), port |-> withGroup.port]
         ELSE IF without.ok
         THEN [ok |-> TRUE, protocol |-> proxyString[1],
               username |-> <<>>, password |-> <<>>,
               host |-> Join(without.host), port |-> without.port]
         ELSE NoMatch
    ELSE NoMatch

(* username || '' *)
orEmpty(group) == IF group = <<>> \/ group = <<"">> THEN "" ELSE group[1]

(* The record addProxyFromString builds from a match. *)
MatchedProxy(m) ==
    [host |-> m.host, port |-> parseInt(m.port), protocol |-> m.protocol,
     username |-> orEmpty(m.username), password |-> orEmpty(m.password),
     successRate |-> 0, lastTested |-> "null"]

(* The strings that are parsed: a head, then four fields with a separator
   (or none) between them. *)
Heads ==
    { <<w, ":", "/", "/">> : w \in SchemeWords \cup {"ftp"} }
        \cup { <<"http", ":", "/">>, <<>> }

Fields == { <<>>, <<"a">>, <<"1">> }

Separators == { <<>>, <<":">>, <<"@">> }

ProxyStrings ==
    { h \o f[1] \o s[1] \o f[2] \o s[2] \o f[3] \o s[3] \o f[4] :
        h \in Heads, f \in [1..4 -> Fields], s \in [1..3 -> Separators] }

(* addProxyFromString(proxyString), up to addProxy's await of saveProxies;
   the value it will return is fixed by then.  One call is followed. *)
AddProxyFromString ==
    /\ ret = NoCall
    /\ \E proxyString \in ProxyStrings :
          LET m == match(proxyString) IN
          /\ arg' = [kind |-> "addProxyFromString", proxyString |-> proxyString]
          /\ ret' = Returned(m.ok)
          /\ IF m.ok
             THEN /\ nextOid <= MaxObjects
                  /\ \E id \in {lastId, lastId + 1} :
                        /\ id >= 1
                        /\ proxies' = addProxy(proxies, MatchedProxy(m), id, nextOid)
                        /\ lastId' = IF Len(proxies') > Len(proxies) THEN id ELSE lastId
                  /\ nextOid' = nextOid + 1
                  /\ rr' = rrAfter(proxies')
             ELSE UNCHANGED <<proxies, lastId, nextOid, rr>>
    /\ UNCHANGED <<life, discovery, proxyIndex, poolLoaded, probes, refreshes, refreshCount,
                   picked>>

RemoveProxy(proxyId) ==
    /\ \E i \in 1..Len(proxies) : proxies[i].id = proxyId
    /\ proxies' = removeProxy(proxies, proxyId)
    /\ rr' = rrAfter(proxies')
    /\ UNCHANGED <<life, calls, proxyIndex, poolLoaded, nextOid, lastId, probes, refreshes,
                   refreshCount, picked>>

CleanupDeadProxies ==
    /\ proxies' = cleanupDeadProxies(proxies)
    /\ proxies' # proxies
    /\ rr' = rrAfter(proxies')
    /\ UNCHANGED <<life, calls, proxyIndex, poolLoaded, nextOid, lastId, probes, refreshes,
                   refreshCount, picked>>

(* parseProxyList(data).  A list is a sequence of lines and a line a sequence
   of characters, trimmed already. *)
MaxLines == 2

Lines ==
    { <<"a", ":", "1">>, <<"b", ":", "1">>, <<"a">>, <<"a", ":", "b">>,
      <<":", "1">>, <<"a", ":">>, <<>> }

Datas == UNION {[1..n -> Lines] : n \in 0..MaxLines}

(* isNaN(port) of a non-empty port: a run of decimal digits is a number, a
   run that holds a letter or a colon is not. *)
isNaN(port) == \E i \in 1..Len(port) : ~Digit(port[i])

(* const [host, port] = trimmed.split(':'): the first two pieces *)
split(trimmed) ==
    LET k == indexOf(trimmed, ":", 0)
        e == indexOf(trimmed, ":", k) IN
    [host |-> SubSeq(trimmed, 1, k - 1),
     port |-> SubSeq(trimmed, k + 1, IF e = 0 THEN Len(trimmed) ELSE e - 1)]

(* the body of parseProxyList's loop: what one line pushes *)
parseLine(trimmed) ==
    IF trimmed = <<>> THEN <<>>
    ELSE IF indexOf(trimmed, ":", 0) = 0 THEN <<>>
    ELSE LET f == split(trimmed) IN
         IF f.host # <<>> /\ f.port # <<>> /\ ~isNaN(f.port)
         THEN << ParsedProxy([host |-> Join(f.host), port |-> parseInt(f.port)]) >>
         ELSE <<>>

RECURSIVE parseProxyList(_)
parseProxyList(data) ==
    IF data = <<>> THEN <<>> ELSE parseLine(Head(data)) \o parseProxyList(Tail(data))

(* the lines parseProxyList pushed a candidate for (history) *)
pushedLines(data) ==
    LET Pushed(line) == parseLine(line) # <<>> IN SelectSeq(data, Pushed)

(* loadFreeProxyLists after source n: the next source, or the end *)
nextSource(n) == IF n < Len(proxySources) THEN Fetching(n + 1) ELSE Finished

(* The axios.get of a source settles: it threw (caught, next source), or it
   gave a list, which is parsed; testProxy is called on the first candidate. *)
SourceFetched(response) ==
    LET n == discovery.source
        proxyList == parseProxyList(response.data) IN
    /\ discovery.at = "get"
    /\ discovery' = IF response.threw THEN nextSource(n)
                    ELSE IF proxyList = <<>> THEN nextSource(n)
                    ELSE Testing(n, proxyList, pushedLines(response.data), response.data)
    /\ UNCHANGED <<life, pool, arg, ret>>

(* The testProxy of a candidate settles; if it returned true the candidate is
   handed to addProxy (up to its await of saveProxies).  The loop goes on to
   the next candidate, then to the next source. *)
CandidateTested(outcome) ==
    LET n == discovery.source
        proxy == testProxy(Head(discovery.candidates), outcome) IN
    /\ discovery.at = "test"
    /\ IF outcome = "ok"
       THEN /\ nextOid <= MaxObjects
            /\ \E id \in {lastId, lastId + 1} :
                  /\ id >= 1
                  /\ proxies' = addProxy(proxies, proxy, id, nextOid)
                  /\ lastId' = IF Len(proxies') > Len(proxies) THEN id ELSE lastId
            /\ nextOid' = nextOid + 1
            /\ rr' = rrAfter(proxies')
       ELSE UNCHANGED <<proxies, lastId, nextOid, rr>>
    /\ discovery' = IF Tail(discovery.candidates) = <<>>
                    THEN nextSource(n)
                    ELSE Testing(n, Tail(discovery.candidates), Tail(discovery.lines),
                                 discovery.data)
    /\ UNCHANGED <<life, arg, ret, proxyIndex, poolLoaded, probes, refreshes, refreshCount,
                   picked>>

(* testProxy(record) called on its own: no nudge follows. *)
TestProxyStart(i) ==
    /\ [oid |-> proxies[i].oid, call |-> 0] \notin probes
    /\ probes' = probes \cup {[oid |-> proxies[i].oid, call |-> 0]}
    /\ Cardinality(probes') <= MaxProbes
    /\ UNCHANGED <<life, calls, proxies, proxyIndex, poolLoaded, nextOid, lastId, refreshes,
                   refreshCount, picked, rr>>

(* testAllProxies up to its await of Promise.all: one probe per record of the
   array as it is now.  selecting is "no", or what the getRandomProxy call
   that makes this call has found.  On top of the MaxRefreshes calls that are
   followed, one more getRandomProxy may call while the call of another
   getRandomProxy is under way. *)
testAllProxies(selecting) ==
    LET c == refreshCount + 1 IN
    /\ \/ refreshCount < MaxRefreshes
       \/ /\ refreshCount = MaxRefreshes
          /\ selecting # "no"
          /\ \E d \in refreshes : d.selecting # "no"
    /\ refreshCount' = c
    /\ probes' = probes \cup {[oid |-> proxies[i].oid, call |-> c] : i \in 1..Len(proxies)}
    /\ Cardinality(probes') <= MaxProbes
    /\ refreshes' = refreshes \cup {[call |-> c, selecting |-> selecting]}

TestAllProxies ==
    /\ testAllProxies("no")
    /\ UNCHANGED <<life, calls, proxies, proxyIndex, poolLoaded, nextOid, lastId, picked, rr>>

(* A probe's axios.get settles: testProxy writes to its object, and the
   callback of testAllProxies then nudges the rate.  An object that is no
   longer in the array changes nothing that can be seen. *)
ProbeDone(b, outcome) ==
    LET Settle(p) ==
            IF p.oid # b.oid THEN p
            ELSE IF b.call = 0 THEN testProxy(p, outcome)
            ELSE [testProxy(p, outcome) EXCEPT
                     !.successRate = nudge(@, outcome = "ok")] IN
    /\ probes' = probes \ {b}
    /\ proxies' = [i \in 1..Len(proxies) |-> Settle(proxies[i])]
    /\ UNCHANGED <<life, calls, proxyIndex, poolLoaded, nextOid, lastId, refreshes,
                   refreshCount, picked, rr>>

(* What a getRandomProxy call finds (history). *)
PoolAtCall(ps) ==
    IF Len(ps) = 0 THEN "empty"
    ELSE IF \E i \in 1..Len(ps) : ps[i].successRate > 0 THEN "working"
    ELSE "dead"

(* What a getRandomProxy call returns (history); i = 0 for null or undefined. *)
Picked(atCall, refreshed, i) ==
    [atCall |-> atCall, refreshed |-> refreshed, none |-> i = 0,
     member |-> i \in 1..Len(proxies),
     healthy |-> i \in 1..Len(proxies) /\ proxies[i].successRate > 0,
     emptyAtReturn |-> Len(proxies) = 0]

(* a pool that never counts as empty *)
isEmptyNever(ps) == FALSE

(* this.proxies.length === 0 *)
isEmpty(ps) == Len(ps) = 0

(* a filter that lets every proxy pass *)
WorkingOrNot(ps) == 1..Len(ps)

(* the proxies with successRate > 0, as array indices *)
Working(ps) == {i \in 1..Len(ps) : ps[i].successRate > 0}

(* getRandomProxy up to its return, or up to its await of testAllProxies. *)
GetRandomProxy ==
    IF isEmpty(proxies)
    THEN /\ picked' = Picked(PoolAtCall(proxies), FALSE, 0)
         /\ UNCHANGED <<life, calls, proxies, proxyIndex, poolLoaded, nextOid, lastId, probes,
                        refreshes, refreshCount, rr>>
    ELSE IF Working(proxies) # {}
    THEN /\ \E i \in Working(proxies) : picked' = Picked(PoolAtCall(proxies), FALSE, i)
         /\ UNCHANGED <<life, calls, proxies, proxyIndex, poolLoaded, nextOid, lastId, probes,
                        refreshes, refreshCount, rr>>
    ELSE /\ testAllProxies(PoolAtCall(proxies))
         /\ UNCHANGED <<life, calls, proxies, proxyIndex, poolLoaded, nextOid, lastId, picked, rr>>

(* a testAllProxies call whose promise never settles *)
RefreshDoneNever(c) == c \in refreshes /\ FALSE

(* Promise.all and saveProxies of a testAllProxies call have settled.  A call
   made by getRandomProxy goes on to line 189: a random element of the array
   as it is now, undefined when it has become empty. *)
RefreshDone(c) ==
    /\ \A b \in probes : b.call # c.call
    /\ refreshes' = refreshes \ {c}
    /\ IF c.selecting = "no" THEN UNCHANGED picked
       ELSE IF Len(proxies) = 0 THEN picked' = Picked(c.selecting, TRUE, 0)
       ELSE \E i \in 1..Len(proxies) : picked' = Picked(c.selecting, TRUE, i)
    /\ UNCHANGED <<life, calls, proxies, proxyIndex, poolLoaded, nextOid, lastId, probes,
                   refreshCount, rr>>

(* a cursor that stays where it is *)
advanceStuck(index, length) == index % length

(* (this.proxyIndex + 1) % this.proxies.length *)
advance(index, length) == (index + 1) % length

(* getNextProxy *)
GetNextProxy ==
    /\ Len(rr.log) < MaxPicks
    /\ IF Len(proxies) = 0
       THEN /\ rr' = [rr EXCEPT !.none = TRUE, !.size = 0, !.member = FALSE]
            /\ UNCHANGED proxyIndex
       ELSE /\ proxyIndex' = advance(proxyIndex, Len(proxies))
            /\ rr' = [log |-> Append(rr.log, KeyOf(proxies[proxyIndex' + 1])),
                      none |-> FALSE, size |-> Len(proxies),
                      member |-> proxyIndex' + 1 \in 1..Len(proxies)]
    /\ UNCHANGED <<life, calls, proxies, poolLoaded, nextOid, lastId, probes, refreshes,
                   refreshCount, picked>>

-----------------------------------------------------------------------------

(* The server after construction, before any request. *)
AtRest ==
    /\ now = 0
    /\ loaded = FALSE
    /\ nextId = 1
    /\ tests = [i \in Ids |-> NoTest]
    /\ activeTests = [i \in Ids |-> 0]
    /\ runs = <<>>
    /\ timers = <<>>
    /\ timeouts = <<>>
    /\ ticks = {}
    /\ starts = <<>>
    /\ stops = <<>>
    /\ observed = [r \in 1..MaxRuns |-> NoSnap]
    /\ lastStop = [i \in Ids |-> "none"]
    /\ redo = [i \in Ids |-> "none"]
    /\ stopCalls = [i \in Ids |-> 0]
    /\ apiStops = 0
    /\ proxies = <<>>
    /\ proxyIndex = 0
    /\ poolLoaded = FALSE
    /\ nextOid = 1
    /\ lastId = 0
    /\ probes = {}
    /\ refreshes = {}
    /\ refreshCount = 0
    /\ picked = NeverPicked
    /\ rr = NeverNext
    /\ discovery = NotStarted

Init ==
    /\ AtRest
    /\ arg = NoCall
    /\ ret = NoCall

Start == \E cfg \in Configs : ApiStartCreate(cfg)
Stop == \E id \in Ids : ApiStop(id)
Timeout == \E r \in 1..Len(timeouts) : TimeoutFire(r)
Resume == \E i \in 1..Len(stops) : StopResume(i)
Pace == \E t \in 1..Len(timers) : HttpFire(t)
Respond == \E k \in ticks, ok \in BOOLEAN : HttpDone(k, ok)
Launch == \E r \in 1..Len(runs), ok \in BOOLEAN : LaunchDone(r, ok)
Browse == \E t \in 1..Len(timers) : BrowseFire(t)
Navigate == \E k \in ticks, ok \in BOOLEAN : BrowseDone(k, ok)
Audit == \E k \in ticks, missing \in BOOLEAN : HeaderAudit(k, missing)
Scan == \E t \in 1..Len(timers) : ExploitFire(t)
Scanned == \E k \in ticks, found \in ScanOutcomes : ScanDone(k, found)
Exploited == \E k \in ticks, ok \in BOOLEAN : ExploitDone(k, ok)

(* The run lifecycle with every kind of worker loop. *)
Next ==
    \/ Start \/ ApiStartRun \/ Stop \/ Timeout \/ Resume
    \/ Pace \/ Respond
    \/ Launch \/ Browse \/ Navigate \/ Audit
    \/ Scan \/ Scanned \/ Exploited
    \/ ClockTick

Spec == Init /\ [][Next]_vars

(* Stopping, with the TestManager's initial load still under way: runs that
   have at most a Request Generator. *)
StopConfigs ==
    { Cfg(TRUE, "u", 1, 1, 1, 0, FALSE),
      Cfg(FALSE, "u", 0, 0, 0, 0, FALSE) }

StartStop == \E cfg \in StopConfigs : ApiStartCreate(cfg)

NextStop ==
    \/ LoadTests
    \/ StartStop \/ ApiStartRun \/ Stop \/ Timeout \/ Resume
    \/ Pace \/ Respond
    \/ ClockTick

SpecStop == Init /\ [][NextStop]_vars

(* One run of the Request Generator alone. *)
HttpConfigs ==
    { Cfg(TRUE, "u", 1, 1, 3, 0, FALSE),
      Cfg(TRUE, "u", 2, 2, 1, 0, FALSE) }

StartHttp == nextId = 1 /\ \E cfg \in HttpConfigs : ApiStartCreate(cfg)

NextHttp ==
    \/ StartHttp \/ ApiStartRun \/ Stop \/ Timeout \/ Resume
    \/ Pace \/ Respond
    \/ ClockTick

SpecHttp == Init /\ [][NextHttp]_vars

(* One run with every kind of worker loop. *)
WorkConfigs ==
    { Cfg(TRUE, "u", 1, 1, 2, 0, FALSE),
      Cfg(TRUE, "u", 0, 1, 10, 1, TRUE) }

StartWork == nextId = 1 /\ \E cfg \in WorkConfigs : ApiStartCreate(cfg)

NextWork ==
    \/ StartWork \/ ApiStartRun \/ Stop \/ Timeout \/ Resume
    \/ Pace \/ Respond
    \/ Launch \/ Browse \/ Navigate \/ Audit
    \/ Scan \/ Scanned \/ Exploited
    \/ ClockTick

SpecWork == Init /\ [][NextWork]_vars

(* The end-to-end example: one pacing loop at one request per second for two
   seconds, every request answered with a success, nobody asking to stop.  A
   due timer fires, a response arrives, a file write completes, time passes. *)
ExampleConfig == Cfg(TRUE, "u", 1, 1, 2, 0, FALSE)

StartExample == nextId = 1 /\ ApiStartCreate(ExampleConfig)

Answered == \E k \in ticks : HttpDone(k, TRUE)

NextExample ==
    \/ LoadTests
    \/ StartExample \/ ApiStartRun \/ Timeout \/ Resume
    \/ Pace \/ Answered
    \/ ClockTick

SpecExample ==
    /\ Init /\ [][NextExample]_vars
    /\ WF_vars(StartExample) /\ WF_vars(ApiStartRun)
    /\ WF_vars(Timeout) /\ WF_vars(Resume)
    /\ WF_vars(Pace) /\ WF_vars(Answered)
    /\ WF_vars(ClockTick)

(* The proxy pool on its own. *)
Add == \E key \in Keys : AddProxy(ParsedProxy(key)) \/ AddProxy(DiscoveredProxy(key))
Remove == \E proxyId \in 1..MaxObjects : RemoveProxy(proxyId)
TestOne == \E i \in 1..Len(proxies) : TestProxyStart(i)
Probed == \E b \in probes, outcome \in {"ok", "other", "error"} : ProbeDone(b, outcome)
Refreshed == \E c \in refreshes : RefreshDone(c)

(* Editing the pool while it is refreshed. *)
NextPool ==
    \/ LoadProxies
    \/ Add \/ Remove \/ CleanupDeadProxies
    \/ TestAllProxies \/ Probed \/ Refreshed

SpecPool == Init /\ [][NextPool]_vars

(* Probing the records of a pool that only grows. *)
NextHealth ==
    \/ Add
    \/ TestOne \/ TestAllProxies \/ Probed \/ Refreshed

SpecHealth == Init /\ [][NextHealth]_vars

(* getRandomProxy called by one worker at a time: no call starts a refresh
   while the refresh of an earlier call is under way. *)
SelectInTurn ==
    /\ GetRandomProxy
    /\ \A c, d \in refreshes' : (c.selecting # "no" /\ d.selecting # "no") => c = d

(* Random selection from a pool that is edited meanwhile. *)
NextSelect ==
    \/ LoadProxies
    \/ Add \/ Remove \/ CleanupDeadProxies
    \/ SelectInTurn \/ Probed \/ Refreshed

SpecSelect == Init /\ [][NextSelect]_vars

(* Round-robin selection from a pool that is edited meanwhile. *)
NextRoundRobin ==
    \/ Add \/ Remove
    \/ GetNextProxy

SpecRoundRobin == Init /\ [][NextRoundRobin]_vars

(* Cleaning up a pool whose records come from every kind of caller. *)
AddGiven == \E key \in Keys : AddProxy(GivenProxy(key))

NextCleanup ==
    \/ Add \/ AddGiven \/ CleanupDeadProxies
    \/ TestAllProxies \/ Probed \/ Refreshed

SpecCleanup == Init /\ [][NextCleanup]_vars

(* Parsing one proxy string into a pool that already holds parsed records. *)
AddParsed == ret = NoCall /\ \E key \in Keys : AddProxy(ParsedProxy(key))

NextParse ==
    \/ AddParsed
    \/ AddProxyFromString

SpecParse == Init /\ [][NextParse]_vars

(* Discovery from the three sources while the pool is edited. *)
Responses == {[threw |-> TRUE]} \cup {[threw |-> FALSE, data |-> data] : data \in Datas}

Fetched == \E response \in Responses : SourceFetched(response)
Screened == \E outcome \in {"ok", "other", "error"} : CandidateTested(outcome)

NextDiscovery ==
    \/ LoadProxies
    \/ Fetched \/ Screened
    \/ AddParsed \/ Remove

SpecDiscovery == Init /\ [][NextDiscovery]_vars

(* detectJavaScriptVulnerabilities on its own: a body is given, the function
   is applied to it. *)
InitDetect ==
    /\ AtRest
    /\ arg \in {DetectCall(htmlContent) : htmlContent \in Bodies}
    /\ ret = NoCall

NextDetect == Detect

SpecDetect == InitDetect /\ [][NextDetect]_vars

(* analyzeResponseForVulnerabilities on its own: a response is observed by a
   run that holds no finding or one, the function is applied to it. *)
InitAnalyze ==
    /\ AtRest
    /\ arg \in {AnalyzeCall(vulnerabilities, headers) :
                  vulnerabilities \in {<<>>, <<SqlFinding>>}, headers \in ResponseHeaders}
    /\ ret = NoCall

NextAnalyze == Analyze

SpecAnalyze == InitAnalyze /\ [][NextAnalyze]_vars

(* The test store on its own. *)
Update == \E testId \in Ids \cup {NonExistent}, updates \in Patches : UpdateTest(testId, updates)

NextUpdate ==
    \/ LoadTests
    \/ CreateTest
    \/ Update

SpecUpdate == Init /\ [][NextUpdate]_vars

(* One run of the scan/exploit loop alone, long enough for two cycles. *)
ExploitConfig == Cfg(TRUE, "u", 0, 1, 21, 0, TRUE)

StartExploit == nextId = 1 /\ ApiStartCreate(ExploitConfig)

NextExploitLoop ==
    \/ StartExploit \/ ApiStartRun \/ Timeout \/ Resume
    \/ Scan \/ Scanned \/ Exploited
    \/ ClockTick

SpecExploitLoop == Init /\ [][NextExploitLoop]_vars

(* One testAllProxies over a pool that is only added to. *)
NextRefresh ==
    \/ Add
    \/ TestAllProxies \/ Probed \/ Refreshed

SpecRefresh == Init /\ [][NextRefresh]_vars

(* Random selection from a pool of parsed records that is edited meanwhile,
   with the scheduling Node guarantees: a probe settles (axios gives up after
   its timeout) and a settled Promise.all resumes. *)
NextDeadPool ==
    \/ AddParsed \/ Remove
    \/ SelectInTurn \/ Probed \/ Refreshed

FairSelect ==
    /\ Init /\ [][NextDeadPool]_vars
    /\ WF_vars(Probed) /\ WF_vars(Refreshed)

(* testSQLInjection on its own: one call, its four requests. *)
SqlResponded == \E response \in SqlResponses : SqlResponse(response)

NextSql == TestSQLInjection \/ SqlResponded

SpecSql == Init /\ [][NextSql]_vars

(* Runs without workers, started again under the id of a run that was stopped. *)
ReuseConfigs == {Cfg(TRUE, "u", 0, 1, 2, 0, FALSE), Cfg(TRUE, "u", 0, 1, 5, 0, FALSE)}

StartPlain == \E cfg \in ReuseConfigs : ApiStartCreate(cfg)
Again == \E id \in Ids, cfg \in ReuseConfigs : StartAgain(id, cfg)

NextReuse ==
    \/ StartPlain \/ ApiStartRun \/ Again
    \/ Stop \/ Timeout \/ Resume
    \/ ClockTick

SpecReuse == Init /\ [][NextReuse]_vars

(* Workers selecting from a pool that has no working record. *)
NextOverlap ==
    \/ AddParsed
    \/ GetRandomProxy \/ Probed \/ Refreshed

SpecOverlap == Init /\ [][NextOverlap]_vars

(* The lifecycle with the scheduling Node guarantees: a due timer fires, a
   suspended callback resumes once its I/O settles, time passes. *)
FairSpec ==
    /\ Init /\ [][Next]_vars
    /\ WF_vars(ApiStartRun) /\ WF_vars(Timeout) /\ WF_vars(Resume)
    /\ WF_vars(Pace) /\ WF_vars(Respond)
    /\ WF_vars(Launch) /\ WF_vars(Browse) /\ WF_vars(Navigate)
    /\ WF_vars(Scan) /\ WF_vars(Scanned) /\ WF_vars(Exploited)
    /\ WF_vars(ClockTick)

-----------------------------------------------------------------------------
(* Properties *)

Started == 1..Len(runs)

Registered(r) == r \in Started /\ activeTests[runs[r].id] = r

StopReturned(r) == runs[r].final # NoSnap

FinalStatus == {"completed", "stopped", "failed"}

(* C1: once a stopTest call for a run has returned, units of work that were
   dispatched before it and settle later leave the run's Results as they were
   when it returned. *)
C1_ResultsFrozenAfterStop ==
    \A r \in Started : StopReturned(r) => runs[r].results = runs[r].final

(* C2: a stopTest call made after an earlier call for the same run has
   returned does nothing and raises nothing, and when these two are the only
   calls the run was handed to updateTest exactly once. *)
C2_SecondStopIsNoop ==
    \A r \in Started :
        /\ redo[runs[r].id] \in {"none", "noop"}
        /\ (redo[runs[r].id] = "noop" /\ stopCalls[runs[r].id] = 2) => runs[r].handed = 1

C2_Witness ==
    \E r \in Started : redo[runs[r].id] = "noop" /\ stopCalls[runs[r].id] = 2

(* C3: when a stopTest call for a run has returned, none of the run's
   intervals is scheduled, its duration timer is no longer armed, and so no
   timer of the run exists that was created afterwards. *)
C3_NoTimerAfterStop ==
    \A r \in Started :
        StopReturned(r) =>
            /\ \A t \in IntervalsOf(r) : ~timers[t].active
            /\ timeouts[r].state # "armed"

(* C4: once the stored status of a run is completed, stopped or failed, its
   status and its endTime never change again. *)
C4_FinalRecordIsFrozen ==
    [][\A id \in Ids :
          tests[id].status \in FinalStatus =>
              /\ tests'[id].status = tests[id].status
              /\ tests'[id].endTime = tests[id].endTime]_vars

(* C5: with no stop call pending, a run that the duration timer finalized is
   stored as completed and a run that a stop request finalized is stored as
   stopped. *)
C5_StatusReflectsCause ==
    \A r \in Started :
        (/\ tests[runs[r].id] # NoTest
         /\ \A i \in 1..Len(stops) : stops[i].id # runs[r].id)
        => /\ runs[r].finalizedBy = "timer" => tests[runs[r].id].status = "completed"
           /\ runs[r].finalizedBy = "api" => tests[runs[r].id].status = "stopped"

(* C6: from its creation until stop is invoked for it, a run is in the
   registry under its id and its stored status is running. *)
C6_RunningUntilStopped ==
    \A r \in Started :
        runs[r].finalizedBy = "none" =>
            /\ Registered(r)
            /\ tests[runs[r].id].status = "running"

(* RunConfig invariants of the data model *)
ValidConfig(cfg) ==
    /\ cfg.targetUrl # ""
    /\ cfg.hasConfig =>
          /\ cfg.requestsPerSecond >= 1
          /\ cfg.duration >= 1
          /\ cfg.concurrentUsers >= 0
          /\ cfg.browserInstances >= 0

(* C7: a start whose config violates the RunConfig invariants stores no
   record, registers no run and creates no timer. *)
C7_InvalidConfigRejected ==
    /\ \A i \in 1..Len(starts) : ValidConfig(starts[i].config)
    /\ \A r \in Started : ValidConfig(runs[r].config)

(* C8: every registered run is eventually removed from the registry. *)
C8_EveryRunIsFinalized ==
    \A r \in 1..MaxRuns : [](Registered(r) => <>(r \in Started /\ ~Registered(r)))

(* C9: a timer never has two units of work in flight. *)
C9_TicksDoNotOverlap ==
    \A t \in 1..Len(timers) : Inflight(t) <= 1

Balanced(res) ==
    /\ res.requests = Len(res.responseTimes)
    /\ res.requests = res.successful + res.failed

(* C10: each completed tick of a pacing loop adds one request, one response
   time and one success or failure and then calls onProgress with the result;
   every Results onProgress sees has requests = length(responseTimes) =
   successful + failed. *)
C10_TickAccounting ==
    /\ [](\A r \in Started : observed[r] # NoSnap => Balanced(observed[r]))
    /\ [][\A r \in Started :
             runs'[r].results # runs[r].results =>
                 /\ runs'[r].results.requests = runs[r].results.requests + 1
                 /\ Len(runs'[r].results.responseTimes)
                        = Len(runs[r].results.responseTimes) + 1
                 /\ runs'[r].results.successful >= runs[r].results.successful
                 /\ runs'[r].results.failed >= runs[r].results.failed
                 /\ runs'[r].results.successful + runs'[r].results.failed
                        = runs[r].results.successful + runs[r].results.failed + 1
                 /\ observed'[r] = runs'[r].results]_vars

C10_Witness ==
    \E r \in Started :
        /\ observed[r] # NoSnap
        /\ observed[r].successful >= 1
        /\ observed[r].failed >= 1

(* A navigation settles in this step: a unit of work of a browse interval
   leaves the set of units in flight. *)
NavigationSettles(r) ==
    \E k \in ticks : /\ k \notin ticks'
                     /\ timers[k.timer].kind = "browse"
                     /\ timers[k.timer].run = r

(* C11: every navigation attempt that settles, whether page.goto resolved or
   threw, appends exactly one latency sample to responseTimes and adds one to
   exactly one of successful and failed. *)
C11_NavigationAccounting ==
    [][\A r \in Started :
          NavigationSettles(r) =>
              /\ Len(runs'[r].results.responseTimes)
                     = Len(runs[r].results.responseTimes) + 1
              /\ runs'[r].results.successful + runs'[r].results.failed
                     = runs[r].results.successful + runs[r].results.failed + 1]_vars

IsPrefix(s, t) == Len(s) <= Len(t) /\ SubSeq(t, 1, Len(s)) = s

(* Results b is Results a with counters raised and elements appended. *)
Grows(a, b) ==
    /\ a.requests <= b.requests
    /\ a.successful <= b.successful
    /\ a.failed <= b.failed
    /\ IsPrefix(a.responseTimes, b.responseTimes)
    /\ IsPrefix(a.errors, b.errors)
    /\ IsPrefix(a.vulnerabilities, b.vulnerabilities)
    /\ IsPrefix(a.exploitationAttempts, b.exploitationAttempts)

(* C12: in every step the counters requests, successful and failed of a run do
   not decrease, and responseTimes, errors, vulnerabilities and
   exploitationAttempts keep their elements in place and change only by new
   elements at the end. *)
C12_ResultsOnlyGrow ==
    [][\A r \in Started : Grows(runs[r].results, runs'[r].results)]_vars

C12_Witness ==
    \E r \in Started :
        /\ runs[r].results.successful >= 1
        /\ runs[r].results.failed >= 1
        /\ Len(runs[r].results.vulnerabilities) >= 2
        /\ Len(runs[r].results.exploitationAttempts) >= 1

(* Counters and lengths of Results a are at most those of Results b. *)
AtMost(a, b) ==
    /\ a.requests <= b.requests
    /\ a.successful <= b.successful
    /\ a.failed <= b.failed
    /\ Len(a.responseTimes) <= Len(b.responseTimes)
    /\ Len(a.errors) <= Len(b.errors)
    /\ Len(a.vulnerabilities) <= Len(b.vulnerabilities)
    /\ Len(a.exploitationAttempts) <= Len(b.exploitationAttempts)

(* C13: a step of any sub-loop that changes a run's Results also calls
   onProgress with the Results as they are after the change, and each Results
   handed to onProgress has counters and lengths at least those of the one
   handed over before. *)
C13_ProgressIsCumulative ==
    [][\A r \in Started :
          /\ runs'[r].results # runs[r].results => observed'[r] = runs'[r].results
          /\ observed[r] # NoSnap =>
                 /\ observed'[r] # NoSnap
                 /\ AtMost(observed[r], observed'[r])]_vars

C13_Witness ==
    \E r \in Started :
        /\ observed[r] # NoSnap
        /\ observed[r].requests >= 1
        /\ Len(observed[r].errors) >= 1
        /\ Len(observed[r].vulnerabilities) >= 1
        /\ Len(observed[r].exploitationAttempts) >= 1

(* A unit of work of run r ends in failure in this step: a failed request or
   navigation is counted, or a failed exploitation attempt is appended. *)
FailureRecorded(r) ==
    LET old == runs[r].results
        new == runs'[r].results IN
    \/ new.failed = old.failed + 1
    \/ /\ Len(new.exploitationAttempts) = Len(old.exploitationAttempts) + 1
       /\ ~new.exploitationAttempts[Len(new.exploitationAttempts)].success

(* No unit of work is dispatched in this step, except that a scan/exploit
   cycle moves on to a later finding. *)
NoRetry ==
    \A n \in ticks' \ ticks :
        \E k \in ticks \ ticks' : n.timer = k.timer /\ n.cursor > k.cursor

(* C14: a step in which a unit of work fails records the failure in Results (a
   counted failure comes with one new entry of errors and no success) and
   leaves the run running, registered and stored as before, its timers
   scheduled as before, and dispatches no unit of work again. *)
C14_FailureStaysInResults ==
    [][\A r \in Started :
          FailureRecorded(r) =>
              /\ runs'[r].results.failed = runs[r].results.failed + 1 =>
                     /\ Len(runs'[r].results.errors) = Len(runs[r].results.errors) + 1
                     /\ runs'[r].results.successful = runs[r].results.successful
              /\ runs'[r].isRunning = runs[r].isRunning
              /\ tests' = tests
              /\ activeTests' = activeTests
              /\ timers' = timers
              /\ timeouts' = timeouts
              /\ NoRetry]_vars

C14_Witness ==
    \E r \in Started :
        /\ runs[r].isRunning
        /\ Registered(r)
        /\ runs[r].results.failed >= 1
        /\ \E i \in 1..Len(runs[r].results.exploitationAttempts) :
               ~runs[r].results.exploitationAttempts[i].success
        /\ \E t \in IntervalsOf(r) : timers[t].active /\ timers[t].kind = "browse"

(* A run has ended: it is stopped and none of its units of work or stopTest
   calls is still under way. *)
Ended(r) ==
    /\ ~runs[r].isRunning
    /\ \A k \in ticks : timers[k.timer].run # r
    /\ \A i \in 1..Len(stops) : stops[i].run # r

(* C15: a run of one pacing loop at one request per second for two seconds,
   against a target whose every answer is a success, ends, and it ends with
   between one and three requests counted and no failure, whatever the order
   of its ticks, its responses and its duration timer. *)
C15_TwoSecondRun ==
    /\ [](\A r \in Started :
             Ended(r) => /\ runs[r].results.requests \in 1..3
                         /\ runs[r].results.failed = 0)
    /\ <>(\E r \in Started : Ended(r))

C15_Witness ==
    \E r \in Started :
        /\ Ended(r)
        /\ runs[r].results.requests = 2
        /\ runs[r].final # NoSnap
        /\ runs[r].final.requests = 1

Unique(ps) ==
    \A i, j \in 1..Len(ps) : KeyOf(ps[i]) = KeyOf(ps[j]) => i = j

(* The index at which an addProxy step has put its new object. *)
AddedAt == CHOOSE i \in 1..Len(proxies') : proxies'[i].oid = nextOid

(* C16: whatever is added, discovered, removed, refreshed and cleaned up, the
   pool never holds two records with the same host and port; and an addProxy
   for a host and port that the pool holds replaces that record where it is,
   leaving the size and the order of the pool as they were. *)
C16_OneRecordPerEndpoint ==
    /\ [](Unique(proxies))
    /\ [][nextOid' # nextOid =>
             /\ \E i \in 1..Len(proxies') : proxies'[i].oid = nextOid
             /\ IF \E i \in 1..Len(proxies) : KeyOf(proxies[i]) = KeyOf(proxies'[AddedAt])
                THEN /\ Len(proxies') = Len(proxies)
                     /\ KeySeq(proxies') = KeySeq(proxies)
                ELSE Len(proxies') = Len(proxies) + 1]_vars

C16_Witness ==
    /\ Len(proxies) = 1
    /\ nextOid = 3
    /\ proxies[1].oid = 2
    /\ proxies[1].id = 1
    /\ proxies[1].lastTested = "date"
    /\ refreshCount = 1

(* C17: whatever probes and refreshes have settled, in whatever order and
   with whatever outcomes, the successRate of every record of the pool is
   between 0 and 1. *)
C17_RateWithinBounds ==
    \A i \in 1..Len(proxies) :
        proxies[i].successRate >= 0 /\ proxies[i].successRate <= RateOne

C17_Witness ==
    \E i \in 1..Len(proxies) :
        /\ proxies[i].successRate > 0
        /\ proxies[i].successRate < RateOne
        /\ refreshes = {}
        /\ probes = {}

(* C18: a getRandomProxy call on an empty pool returns none at once, without a
   refresh; and whenever a call returns none, the pool is empty at that
   moment (a pool emptied while the call awaited its refresh included). *)
C18_NoneOnlyWhenEmpty ==
    /\ picked.atCall = "empty" => picked.none /\ ~picked.refreshed
    /\ picked.none => picked.emptyAtReturn

C18_Witness ==
    /\ picked.atCall = "dead"
    /\ picked.refreshed
    /\ picked.none

(* C19: a getRandomProxy call made while some record has successRate > 0
   returns, without a refresh, a record of the pool with successRate > 0. *)
C19_HealthyPreferred ==
    picked.atCall = "working" =>
        /\ ~picked.refreshed
        /\ ~picked.none
        /\ picked.member
        /\ picked.healthy

C19_Witness ==
    /\ picked.atCall = "working"
    /\ Len(proxies) = 2
    /\ \E i \in 1..Len(proxies) : proxies[i].successRate = 0
    /\ \E i \in 1..Len(proxies) : proxies[i].successRate > 0

(* The endpoints of n consecutive calls, from the s-th logged call on. *)
Window(s, n) == {rr.log[s + d] : d \in 0..(n - 1)}

(* C20: while the pool keeps its n >= 1 records in place, any n consecutive
   getNextProxy calls return n different records, so each record once; a call
   returns none only on an empty pool; and what a call returns is a record of
   the pool as it is at that call, also after records were removed. *)
C20_RoundRobinCoversPool ==
    LET n == Len(proxies) IN
    /\ n >= 1 => \A s \in 1..(Len(rr.log) - n + 1) :
                     Window(s, n) = {KeyOf(proxies[i]) : i \in 1..n}
    /\ rr.none => rr.size = 0
    /\ (~rr.none /\ rr.size > 0) => rr.member

C20_Witness ==
    /\ Len(proxies) = 2
    /\ Len(rr.log) >= 3
    /\ rr.member

(* A record that a probe has stamped: lastTested holds a date. *)
Tested(p) == p.lastTested = "date"

(* C21: cleanupDeadProxies keeps, in their order, exactly the records that
   are not both tested and at successRate 0; so every record with
   successRate > 0 and every record that was never tested stays. *)
C21_CleanupRemovesTestedDead ==
    LET Retained(p) == ~(Tested(p) /\ p.successRate = 0) IN
    cleanupDeadProxies(proxies) = SelectSeq(proxies, Retained)

(* The readings of a string as scheme://[user:pass@]host:port : the scheme is
   one of the three words, the user and the host hold no colon, the password
   holds no @, the port is digits, and no part is empty. *)
Without(cs, c) == cs # <<>> /\ \A i \in 1..Len(cs) : cs[i] # c

AllDigits(cs) == cs # <<>> /\ \A i \in 1..Len(cs) : Digit(cs[i])

Shaped(s) ==
    /\ Len(s) > 4
    /\ s[1] \in {"http", "https", "socks5"}
    /\ s[2] = ":" /\ s[3] = "/" /\ s[4] = "/"

Part(s, from, to) == SubSeq(s, from + 1, to - 1)

PlainForms(s) ==
    { [protocol |-> s[1], username |-> "", password |-> "",
       host |-> Join(Part(s, 4, k)), port |-> parseInt(Part(s, k, Len(s) + 1))] :
         k \in { k \in 5..Len(s) :
                   /\ s[k] = ":"
                   /\ Without(Part(s, 4, k), ":")
                   /\ AllDigits(Part(s, k, Len(s) + 1)) } }

CredentialForms(s) ==
    { [protocol |-> s[1],
       username |-> Join(Part(s, 4, t[1])), password |-> Join(Part(s, t[1], t[2])),
       host |-> Join(Part(s, t[2], t[3])), port |-> parseInt(Part(s, t[3], Len(s) + 1))] :
         t \in { t \in (5..Len(s)) \X (5..Len(s)) \X (5..Len(s)) :
                   /\ t[1] < t[2] /\ t[2] < t[3]
                   /\ s[t[1]] = ":" /\ s[t[2]] = "@" /\ s[t[3]] = ":"
                   /\ Without(Part(s, 4, t[1]), ":")
                   /\ Without(Part(s, t[1], t[2]), "@")
                   /\ Without(Part(s, t[2], t[3]), ":")
                   /\ AllDigits(Part(s, t[3], Len(s) + 1)) } }

Forms(s) == IF Shaped(s) THEN PlainForms(s) \cup CredentialForms(s) ELSE {}

Holds(ps, d) ==
    \E i \in 1..Len(ps) :
        /\ ps[i].protocol = d.protocol
        /\ ps[i].host = d.host /\ ps[i].port = d.port
        /\ ps[i].username = d.username /\ ps[i].password = d.password

(* C22: addProxyFromString accepts a string exactly when it reads as
   scheme://[user:pass@]host:port with scheme http, https or socks5; it then
   returns true and the pool holds a record with that protocol, host, numeric
   port and credentials (empty when absent); for any other string it returns
   false and the pool is unchanged. *)
C22_AcceptsExactlyProxyUris ==
    [][(ret = NoCall /\ ret' # NoCall) =>
          LET forms == Forms(arg'.proxyString) IN
          IF forms # {}
          THEN /\ ret'.value
               /\ Cardinality(forms) = 1
               /\ \A d \in forms : Holds(proxies', d)
          ELSE /\ ~ret'.value
               /\ proxies' = proxies]_vars

C22_Witness ==
    /\ ret = Returned(TRUE)
    /\ arg.proxyString = <<"socks5", ":", "/", "/", "a", ":", "1", "@", "a", ":", "1">>
    /\ Len(proxies) = 1
    /\ proxies[1].username = "a" /\ proxies[1].password = "1"
    /\ proxies[1].oid > 1

(* A finding a run may try to exploit: a vulnerable library whose CVE list
   holds the exploitable CVE. *)
Eligible(v) == v.type = "Vulnerable JS Library" /\ "CVE-2025-27152" \in v.cve

AnyEligible(res) ==
    \E j \in 1..Len(res.vulnerabilities) : Eligible(res.vulnerabilities[j])

(* C23: an entry is appended to exploitationAttempts only when
   vulnerabilities already holds an eligible finding, and while it holds
   none exploitationAttempts is empty. *)
C23_ExploitOnlyEligible ==
    [][\A r \in 1..Len(runs) :
          /\ Len(runs'[r].results.exploitationAttempts)
                 > Len(runs[r].results.exploitationAttempts)
               => AnyEligible(runs[r].results)
          /\ ~AnyEligible(runs'[r].results)
               => runs'[r].results.exploitationAttempts = <<>>]_vars

C23_Witness ==
    \E r \in 1..Len(runs) :
        /\ Len(runs[r].results.exploitationAttempts) = 1
        /\ AnyEligible(runs[r].results)
        /\ Len(runs[r].results.vulnerabilities) = MaxFindings

(* The places of the catalog whose pattern a body matches: the name and,
   later on the same line, the version. *)
SameLine(body, i, j) == \A m \in i..j : body[m] # "\n"

Matching(body) ==
    { n \in 1..Len(Catalog) :
        \E i \in 1..Len(body), j \in 1..Len(body) :
            /\ i < j
            /\ body[i] = Catalog[n].name /\ body[j] = Catalog[n].version
            /\ SameLine(body, i, j) }

(* The n-th smallest element of a set of numbers. *)
Nth(S, n) == CHOOSE x \in S : Cardinality({y \in S : y < x}) = n - 1

(* C24: detectJavaScriptVulnerabilities returns one finding of type
   'Vulnerable JS Library' and severity HIGH per catalog pattern that
   matches the body, in catalog order, each with that entry's CVE list, and
   nothing when no pattern matches; one finding holding CVE-2025-27152 for
   'axios v1.6.5', none for 'axios v2.0.0'. *)
C24_FindingsFollowCatalog ==
    (arg.kind = "detectJavaScriptVulnerabilities" /\ ret # NoCall) =>
        LET body == arg.htmlContent
            found == ret.value IN
        /\ Len(found) = Cardinality(Matching(body))
        /\ \A n \in 1..Len(found) :
              /\ found[n].type = "Vulnerable JS Library"
              /\ found[n].severity = "HIGH"
              /\ found[n].cve = Catalog[Nth(Matching(body), n)].cve
        /\ body = <<"axios", "v1.6.5">> =>
              Len(found) = 1 /\ "CVE-2025-27152" \in found[1].cve
        /\ body = <<"axios", "v2.0.0">> => found = <<>>

C24_Witness ==
    /\ arg = DetectCall(<<"axios", "v1.6.4", "v1.6.5">>)
    /\ ret # NoCall
    /\ Len(ret.value) = 2
    /\ ret.value[1].evidence = "v1.6.5"

(* The audited headers that are not on a response, in the order audited. *)
Absent(headers) ==
    LET Off(name) == \E n \in 1..Len(SecurityHeaders) :
                        SecurityHeaders[n] = name /\ headers[n] = "undefined" IN
    SelectSeq(SecurityHeaders, Off)

(* C25: whatever subset of the five audited headers is on a response, the
   audit appends exactly one MEDIUM 'Missing Security Headers' finding that
   names all and only the absent headers when one is absent, and appends
   nothing when all five are there. *)
C25_OneFindingNamesAbsent ==
    (arg.kind = "analyzeResponseForVulnerabilities" /\ ret # NoCall) =>
        IF Absent(arg.headers) # <<>>
        THEN /\ Len(ret.value) = Len(arg.vulnerabilities) + 1
             /\ SubSeq(ret.value, 1, Len(arg.vulnerabilities)) = arg.vulnerabilities
             /\ ret.value[Len(ret.value)].type = "Missing Security Headers"
             /\ ret.value[Len(ret.value)].severity = "MEDIUM"
             /\ ret.value[Len(ret.value)].description = Absent(arg.headers)
        ELSE ret.value = arg.vulnerabilities

(* A stored record with the fields of a patch put over its own. *)
Stored(id) == id \in DOMAIN tests /\ tests[id] # NoTest

Overridden(old, patch) ==
    [id |-> old.id,
     status |-> IF "status" \in DOMAIN patch THEN patch.status ELSE old.status,
     endTime |-> IF "endTime" \in DOMAIN patch THEN patch.endTime ELSE old.endTime,
     results |-> IF "results" \in DOMAIN patch THEN patch.results ELSE old.results]

(* C26: updateTest on an id that is not stored throws not-found and leaves
   the stored records as they are; on a stored id it replaces the record by
   its old fields overridden by the patch, with the same id, and leaves the
   other records alone. *)
C26_UpdateMergesOrThrows ==
    [][calls' # calls =>
          IF Stored(arg'.testId)
          THEN /\ ret'.kind = "returned"
               /\ tests' = [tests EXCEPT ![arg'.testId] = Overridden(@, arg'.updates)]
               /\ tests'[arg'.testId].id = arg'.testId
               /\ ret'.value = tests'[arg'.testId]
          ELSE /\ ret' = Thrown("not found")
               /\ tests' = tests]_vars

C26_Witness ==
    /\ arg.kind = "updateTest" /\ arg.testId = 1
    /\ DOMAIN arg.updates = {"status", "endTime"}
    /\ ret.kind = "returned"
    /\ tests[1].status = "stopped" /\ tests[1].results = 1

(* C27: when two stopTest calls for one run overlap, the timer's and an
   explicit one, the run is still handed to updateTest once and its endTime
   is set once: a set endTime is not written again. *)
C27_OverlappingStopsFinalizeOnce ==
    [][\A r \in 1..Len(runs) :
          /\ runs'[r].handed <= 1
          /\ runs[r].endTime # NoTime => runs'[r].endTime = runs[r].endTime]_vars

(* A run that stopTest has stopped and whose updateTest failed: it was never
   handed over. *)
PersistenceFailed(r) == ~runs[r].isRunning /\ runs[r].handed = 0

(* C28: when updateTest fails during stopTest, stopTest does not raise to
   its caller, the run's timers stay cancelled and the run is removed from
   activeTests. *)
C28_StopSurvivesPersistenceError ==
    \A r \in 1..Len(runs) :
        PersistenceFailed(r) =>
            /\ lastStop[runs[r].id] # "raised"
            /\ \A t \in 1..Len(timers) : timers[t].run = r => ~timers[t].active
            /\ activeTests[runs[r].id] # r

(* Every browser launched for a run has been closed, and none is still being
   launched. *)
BrowsersClosed(r) ==
    /\ runs[r].launching = 0
    /\ \A t \in 1..Len(timers) :
          timers[t].run = r /\ timers[t].kind = "browse" => timers[t].closed

(* C29: once a run has stopped, by an explicit stop or by the duration
   timer, every browser launched for it is eventually closed, whether its
   launch finished before the stop or after. *)
C29_BrowsersClosedAfterStop ==
    \A r \in 1..MaxRuns :
        (r <= Len(runs) /\ ~runs[r].isRunning) ~> (r <= Len(runs) /\ BrowsersClosed(r))

(* C30: over a whole run each eligible finding triggers at most one
   exploitation attempt: exploitationAttempts never holds more entries than
   vulnerabilities holds eligible findings. *)
C30_OneAttemptPerFinding ==
    \A r \in 1..Len(runs) :
        Len(runs[r].results.exploitationAttempts)
            <= Cardinality({j \in 1..Len(runs[r].results.vulnerabilities) :
                              Eligible(runs[r].results.vulnerabilities[j])})

(* The probes of a testAllProxies call that settle in a step. *)
SettledNow == {b \in probes : b \notin probes' /\ b.call > 0}

(* C31: when a probe of testAllProxies settles, its record ends one nudge
   away from the rate it had when testAllProxies began: min(old + 0.1, 1)
   after a success, max(old - 0.1, 0) after a failure. *)
C31_RefreshNudgesByOneStep ==
    [][\A b \in SettledNow : \A i \in 1..Len(proxies) :
          proxies[i].oid = b.oid =>
              proxies'[i].successRate \in
                  { Min(proxies[i].successRate + RateStep, RateOne),
                    Max(proxies[i].successRate - RateStep, 0) }]_vars

(* The probes of a testProxy call made on its own that settle in a step. *)
TestedNow == {b \in probes : b \notin probes' /\ b.call = 0}

(* C32: testProxy sets lastTested and successRate = 1 on a successful probe;
   on a failed probe it sets lastTested and leaves successRate as it was. *)
C32_FailedProbeKeepsRate ==
    [][\A b \in TestedNow : \A i \in 1..Len(proxies) :
          proxies[i].oid = b.oid =>
              /\ proxies'[i].lastTested = "date"
              /\ \/ proxies'[i].successRate = RateOne
                 \/ proxies'[i].successRate = proxies[i].successRate]_vars

(* A getRandomProxy call is waiting for its testAllProxies. *)
Selecting == \E c \in refreshes : c.selecting # "no"

(* C33 as stated: a getRandomProxy call made on a non-empty pool with no
   record at successRate > 0 refreshes once, then returns a record of the
   pool as it is then, healthy or not; and the call returns, whatever the
   probes answer and however the pool is edited meanwhile. *)
C33_DeadPoolReturnsMember ==
    /\ [](picked.atCall = "dead" => picked.refreshed /\ picked.member)
    /\ Selecting ~> ~Selecting

(* C33, amended: the same, except that the call returns nothing when the
   pool has been emptied while it was refreshing. *)
C33_DeadPoolReturnsMemberUnlessEmptied ==
    /\ [](picked.atCall = "dead" =>
            /\ picked.refreshed
            /\ IF picked.emptyAtReturn THEN picked.none ELSE picked.member)
    /\ Selecting ~> ~Selecting

C33_Witness ==
    /\ picked.atCall = "dead"
    /\ picked.refreshed
    /\ picked.member /\ ~picked.healthy
    /\ refreshes = {} /\ probes = {}

(* A line of the form host:port: one colon, something before it, decimal
   digits after it. *)
WellFormed(line) ==
    \E k \in 2..(Len(line) - 1) :
       /\ line[k] = ":"
       /\ \A i \in 1..(k - 1) : line[i] # ":"
       /\ \A i \in (k + 1)..Len(line) : Digit(line[i])

LineKey(line) ==
    LET k == CHOOSE i \in 1..Len(line) : line[i] = ":" IN
    [host |-> Join(SubSeq(line, 1, k - 1)), port |-> parseInt(SubSeq(line, k + 1, Len(line)))]

AfterSource(n) == IF n = Len(proxySources) THEN Finished ELSE Fetching(n + 1)

(* C34: a record that discovery adds comes from a well-formed host:port line
   and enters the pool tested, with successRate 1 and lastTested set; a failed
   fetch and a malformed line add nothing, and discovery goes on with the
   remaining lines and sources. *)
C34_DiscoveryAdmitsTestedOnly ==
    [][/\ (discovery.at = "get" /\ discovery' # discovery) =>
             /\ proxies' = proxies
             /\ \/ discovery' = AfterSource(discovery.source)
                \/ /\ discovery'.at = "test"
                   /\ discovery'.source = discovery.source
                   /\ LET WellFormedLine(line) == WellFormed(line) IN
                      discovery'.lines = SelectSeq(discovery'.data, WellFormedLine)
                   /\ discovery'.lines # <<>>
       /\ (discovery.at = "test" /\ discovery' # discovery) =>
             /\ \/ /\ discovery.lines = <<Head(discovery.lines)>>
                   /\ discovery' = AfterSource(discovery.source)
                \/ /\ discovery'.at = "test"
                   /\ discovery'.source = discovery.source
                   /\ discovery'.lines = Tail(discovery.lines)
                   /\ discovery'.lines # <<>>
             /\ \/ proxies' = proxies
                \/ /\ WellFormed(Head(discovery.lines))
                   /\ \E i \in 1..Len(proxies') :
                         /\ KeyOf(proxies'[i]) = LineKey(Head(discovery.lines))
                         /\ proxies'[i].successRate = RateOne
                         /\ proxies'[i].lastTested = "date"
                         /\ \A j \in 1..Len(proxies) : j # i => proxies'[j] = proxies[j]
                         /\ Len(proxies') = Max(Len(proxies), i)]_vars

(* a record admitted from an earlier source is in the pool while discovery
   tests the candidate of a later list whose first line is malformed *)
C34_Witness ==
    /\ discovery.at = "test"
    /\ discovery.source > 1
    /\ ~WellFormed(discovery.data[1])
    /\ \E i \in 1..Len(proxies) :
          /\ proxies[i].successRate = RateOne
          /\ proxies[i].lastTested = "date"

(* The bodies that carry a database-error signature. *)
SignatureBodies == { <<"SQL", "syntax">>, <<"syntax", "error">>, <<"mysql", "Error">> }

(* The payloads whose request succeeded with such a body, by position. *)
SqlHits ==
    {k \in 1..Len(arg.responses) :
        arg.responses[k].success /\ arg.responses[k].data \in SignatureBodies}

Position(payload) == CHOOSE k \in 1..Len(sqlPayloads) : sqlPayloads[k] = payload

(* C35: testSQLInjection sends one request per payload, in list order and
   whatever the earlier requests did; it returns one CRITICAL finding for
   exactly the payloads whose request succeeded with a body that carries a
   database-error signature, in payload order. *)
C35_OneRequestPerPayload ==
    arg.kind = "testSQLInjection" =>
        /\ arg.requests = SubSeq(sqlPayloads, 1, Len(arg.requests))
        /\ Len(arg.requests) =
              IF ret.kind = "pending" THEN Len(arg.responses) + 1 ELSE Len(arg.responses)
        /\ ret.kind = "returned" =>
              /\ arg.requests = sqlPayloads
              /\ Len(ret.value) = Cardinality(SqlHits)
              /\ {Position(ret.value[i].payload) : i \in 1..Len(ret.value)} = SqlHits
              /\ \A i \in 1..Len(ret.value) : ret.value[i].severity = "CRITICAL"
              /\ \A i, j \in 1..Len(ret.value) :
                    i < j => Position(ret.value[i].payload) < Position(ret.value[j].payload)

(* returned after a failed first request, with a finding for a later payload
   and none for a payload whose body carried no signature *)
C35_Witness ==
    /\ arg.kind = "testSQLInjection"
    /\ ret.kind = "returned"
    /\ ~arg.responses[1].success
    /\ SqlHits # {}
    /\ \E k \in 1..Len(arg.responses) : arg.responses[k].success /\ k \notin SqlHits

(* C36: once stopTest has been called for a run, none of its workers begins a
   unit of work: no request, scan, exploit or navigation is started. *)
C36_NoNewWorkAfterStop ==
    [][\A k \in ticks' \ ticks : runs[timers[k.timer].run].isRunning]_vars

(* C37: a run that is in the registry has had its duration timer armed, also
   when starting one of its loops threw. *)
C37_RegisteredRunHasTimer ==
    \A r \in Started : Registered(r) => timeouts[r].state # "none"

(* the duration timers that fire in this step *)
FiringNow == {r \in 1..Len(timeouts) : timeouts[r].state = "armed" /\ timeouts'[r].state = "fired"}

(* C38: when a duration timer fires, the only run it can stop is the run
   that armed it, also when another run has since been started under the
   same id. *)
C38_TimerStopsOwnRunOnly ==
    [][\A r \in FiringNow : \A q \in Started :
          (runs[q].isRunning /\ ~runs'[q].isRunning) => q = r]_vars

(* C39: the initial load keeps every record that was added before it
   finished. *)
C39_LoadKeepsAddedRecords ==
    [][(~poolLoaded /\ poolLoaded') =>
          \A i \in 1..Len(proxies) :
              \E j \in 1..Len(proxies') : KeyOf(proxies'[j]) = KeyOf(proxies[i])]_vars

(* C40: at most one testAllProxies is under way at any time, so no record is
   probed by two refreshes at once. *)
C40_OneRefreshAtATime ==
    /\ Cardinality(refreshes) <= 1
    /\ \A b, d \in probes : (b.oid = d.oid /\ b.call > 0 /\ d.call > 0) => b = d

====
